---------------------------- MODULE Spec2Model ----------------------------
(***************************************************************************)
(* BLIP connection core (src/src/blip/BLIPConnection.cc): the BLIPIO actor *)
(* with its Outbox / Icebox queues and pending-message maps, the           *)
(* Connection facade's state machine, and the WebSocket transport that     *)
(* calls BLIPIO as its delegate.                                           *)
(*                                                                         *)
(* Every public entry point of BLIPIO posts an event to the actor's        *)
(* mailbox (Actor::enqueue); the actor handles one event at a time, so a   *)
(* handler and everything it calls is one atomic action.  The bytes of an  *)
(* incoming frame and the CloseStatus of a close are opaque until the      *)
(* handler decodes them, so they are drawn when the handler runs.          *)
(***************************************************************************)
EXTENDS Integers, Sequences, FiniteSets, TLC

(* ------------------------------ constants ------------------------------ *)

kDefaultFrameSize == 4096
kBigFrameSize == 16384
kMaxSendSize == 51200
\* MessageOut::needsAck threshold and MessageIn's ACK interval (Message.cc is
\* not part of the sources; value from the specification, 50 KiB).
kAckThreshold == 51200

kCodeNormal == 1000
kCodeGoingAway == 1001
kCodeProtocolError == 1002
kWebSocketClose == 0
kPOSIXError == 1
kNetworkError == 2
kException == 3
kUnknownError == 4

(* ------------------------------- bounds -------------------------------- *)

MaxNo == 3           \* largest message number the peer uses in a frame

\* Serialized sizes of the messages the application sends: one frame, and
\* five frames (more than kAckThreshold, so the message gets frozen).
MsgSizes == {100, 70000}
\* Cumulative byte counts carried by incoming ACK frames; -1: body that is
\* no varint.
AckBytes == {-1, 0, 40000}
Profiles == {"echo"}
Handlers == {"h1"}

(* ------------------------------ variables ------------------------------ *)

VARIABLES
    state,                \* Connection::_state
    closeStatus,          \* Connection::_closeStatus
    wsState,              \* the transport: "connecting", "open", "closed",
                          \* "closed twice"
    wsClosing,            \* WebSocket::close() was called on the transport
    webSocket,            \* BLIPIO::_webSocket # nullptr
    connection,           \* BLIPIO::_connection # nullptr
    outbox,               \* BLIPIO::_outbox: sequence of MessageOut ids
    icebox,               \* BLIPIO::_icebox: sequence of MessageOut ids
    sentBytes,            \* BLIPIO::_sentBytes
    pendingRequests,      \* BLIPIO::_pendingRequests: msgNo -> MessageIn
    pendingResponses,     \* BLIPIO::_pendingResponses: msgNo -> MessageIn
    lastMessageNo,        \* BLIPIO::_lastMessageNo
    numRequestsReceived,  \* BLIPIO::_numRequestsReceived
    requestHandlers,      \* BLIPIO::_requestHandlers: profile -> handler
    msgs,                 \* the MessageOut objects, by id (allocation order)
    mailbox,              \* Actor mailbox of BLIPIO, FIFO
    wire,                 \* history: frames passed to WebSocket::send
    calls,                \* history: callbacks made to the application
    rx,                   \* history: frames _onWebSocketMessage handled
    accepted,             \* history: numbers of the requests created
    last,                 \* history: the event the actor handled last
    nsteps,               \* history: number of events the actor has handled
    assertFailed,         \* history: an assert() of BLIPIO failed
    requeued,             \* history: the requeue calls of the last handler
                          \* that wrote the outgoing side (in LoggedEnvs)
    fault,                \* the process died on a read outside an array
    nIn, nWriteable, nClose, nSetHandler,  \* inputs used so far
    frame,                \* _frameBuf: a frame to encode, and as encoded
    builder,              \* a MessageBuilder
    built,                \* history of the calls made on the builder
    mock,                 \* a MockWebSocket's Driver, with its history
    _items,               \* Batcher::_items: {} (null) or {the vector}
    _scheduled,           \* Batcher::_scheduled
    processorCalls,       \* processor calls waiting in the Batcher's actor
    processing,           \* the processor is running and has not popped yet
    nPushed,              \* history: number of items pushed (item i is i)
    nPopped,              \* history: number of pop calls by other threads
    pops,                 \* history: what each pop returned
    enqueued,             \* history: processor calls enqueued since last pop
    env                   \* name of the environment (Envs) of this run

vars == <<state, closeStatus, wsState, wsClosing, webSocket, connection,
          outbox, icebox, sentBytes, pendingRequests, pendingResponses,
          lastMessageNo, numRequestsReceived, requestHandlers, msgs, mailbox,
          wire, calls, rx, accepted, last, nsteps, assertFailed, requeued, fault,
          nIn, nWriteable, nClose, nSetHandler, frame, builder, built, mock,
          _items,
          _scheduled,
          processorCalls, processing, nPushed, nPopped, pops, enqueued, env>>

\* the variables of the connection, which the Batcher does not touch
blipVars == <<state, closeStatus, wsState, wsClosing, webSocket, connection,
              outbox, icebox, sentBytes, pendingRequests, pendingResponses,
              lastMessageNo, numRequestsReceived, requestHandlers, msgs,
              mailbox, wire, calls, rx, accepted, last, nsteps, assertFailed, requeued,
              fault, nIn, nWriteable, nClose, nSetHandler, env>>

\* the Batcher, its actor's queue and its history
batcherVars == <<_items, _scheduled, processorCalls, processing, nPushed,
                 nPopped, pops, enqueued>>

\* the fields of BLIPIO
bioVarsNoMsgs == <<webSocket, connection, outbox, icebox, sentBytes,
                   pendingRequests, pendingResponses, lastMessageNo,
                   numRequestsReceived, requestHandlers>>

(* ------------------------------- helpers ------------------------------- *)

EmptyMap == [x \in {} |-> 0]

MapPut(f, k, v) == [x \in DOMAIN f \cup {k} |-> IF x = k THEN v ELSE f[x]]

MapErase(f, k) == [x \in DOMAIN f \ {k} |-> f[x]]

\* unordered_map::emplace: inserts only if the key is absent
MapEmplace(f, k, v) == IF k \in DOMAIN f THEN f ELSE MapPut(f, k, v)

Range(s) == {s[i] : i \in 1..Len(s)}

InsertAt(s, i, x) == SubSeq(s, 1, i - 1) \o <<x>> \o SubSeq(s, i, Len(s))

RemoveAt(s, i) == SubSeq(s, 1, i - 1) \o SubSeq(s, i + 1, Len(s))

Min(a, b) == IF a < b THEN a ELSE b

\* PutUVarInt: number of bytes of the varint encoding of n
RECURSIVE SizeOfVarInt(_)
SizeOfVarInt(n) == IF n < 128 THEN 1 ELSE 1 + SizeOfVarInt(n \div 128)

\* A uint64 as four 16-bit limbs, the least significant first
Limbs(w1, w2, w3, w4) == <<w1, w2, w3, w4>>

\* n >> 7
ShiftRight7(n) ==
    [i \in 1..4 |-> (n[i] \div 128)
                      + (IF i < 4 THEN (n[i + 1] % 128) * 512 ELSE 0)]

RECURSIVE PutUVarInt(_)
\* PutUVarInt: the bytes of the varint encoding of the uint64 n
PutUVarInt(n) ==
    IF n[1] < 128 /\ n[2] = 0 /\ n[3] = 0 /\ n[4] = 0
    THEN <<n[1]>>
    ELSE <<128 + (n[1] % 128)>> \o PutUVarInt(ShiftRight7(n))

\* the longest varint encoding of a uint64
kMaxVarintLen64 == 10

\* _frameBuf before a frame is written; as written: header (bytes), body
\* (number of bytes)
NoBuffer ==
    [number |-> Limbs(0, 0, 0, 0), flags |-> 0, left |-> 0, urgent |-> FALSE,
     behind |-> "", sent |-> FALSE, header |-> <<>>, body |-> 0, maxSize |-> 0]

NoEvent == [op |-> "none", m |-> 0, profile |-> "", handler |-> ""]

Event(op) == [NoEvent EXCEPT !.op = op]

NoFrame ==
    [binary |-> TRUE, hdr |-> TRUE, type |-> "none", msgNo |-> 0,
     more |-> FALSE, profile |-> "", ack |-> FALSE, bytes |-> 0]

NoStatus == [reason |-> kWebSocketClose, code |-> 0]

NoLast == [op |-> "none", m |-> 0, outcome |-> ""]


(* ---------------- Message (MessageOut / MessageIn objects) -------------- *)

\* kMessageTypeNames index = MessageType value (REQ 0, RES 1, ERR 2,
\* ACKREQ 4, AKRES 5)
TypeCode(type) ==
    CASE type = "REQ" -> 0
      [] type = "RES" -> 1
      [] type = "ERR" -> 2
      [] type = "?3?" -> 3
      [] type = "ACKREQ" -> 4
      [] type = "AKRES" -> 5
      [] OTHER -> 7

\* FrameFlags byte: type | kUrgent (16) | kNoReply (32) | kMoreComing (64)
FlagsByte(m, more) ==
    TypeCode(m.type) + (IF m.urgent THEN 16 ELSE 0)
        + (IF m.noReply THEN 32 ELSE 0) + (IF more THEN 64 ELSE 0)

\* afterClose (history): the message was created after Connection::close()
\* had been called
NoError == [domain |-> "", code |-> 0]

NewMessageOut(type, number, urgent, noReply, size) ==
    [type |-> type, number |-> number, urgent |-> urgent, noReply |-> noReply,
     size |-> size, bytesSent |-> 0, unackedBytes |-> 0,
     error |-> NoError, afterClose |-> nClose > 0]

isAck(m) == m.type \in {"ACKREQ", "AKRES"}

isResponse(m) == m.type = "RES"

needsAck(m) == m.unackedBytes >= kAckThreshold

\* MessageOut::nextFrameToSend: payload size of the next frame
nextFrameSize(m, maxSize) == Min(maxSize, m.size - m.bytesSent)

\* MessageOut::nextFrameToSend: the message after the frame was taken
nextFrameToSend(m, maxSize) ==
    [m EXCEPT !.bytesSent = @ + nextFrameSize(m, maxSize),
              !.unackedBytes = @ + nextFrameSize(m, maxSize)]

\* MessageOut::receivedAck(byteCount)
msgReceivedAck(m, byteCount) ==
    IF byteCount <= m.bytesSent
    THEN [m EXCEPT !.unackedBytes = Min(@, m.bytesSent - byteCount)]
    ELSE m

\* MessageOut::createResponse: a MessageIn for the reply, or none
createResponse(m) ==
    IF m.type = "REQ" /\ ~m.noReply
    THEN {[number |-> m.number, type |-> "RES"]}
    ELSE {}

\* BLIPLog.level() <= LogLevel::Verbose (the log level the process runs at)
BLIPLogVerbose == FALSE

(* ----------------------------- MessageQueue ----------------------------- *)

contains(q, id) == id \in Range(q)

\* MessageQueue::findMessage: id of the first match, 0 if none
findMessage(q, ms, msgNo, onResponse) ==
    LET hits == {i \in 1..Len(q) : ms[q[i]].number = msgNo
                                   /\ isResponse(ms[q[i]]) = onResponse}
    IN  IF hits = {} THEN 0
        ELSE q[CHOOSE i \in hits : \A j \in hits : i <= j]

\* MessageQueue::remove
remove(q, id) ==
    IF ~contains(q, id) THEN q
    ELSE RemoveAt(q, CHOOSE i \in 1..Len(q) :
                       q[i] = id /\ \A j \in 1..(i - 1) : q[j] # id)

(* ------------------------- BLIPIO: outgoing side ------------------------ *)

\* The part of the BLIPIO state the outgoing path works on.
OutState ==
    [outbox |-> outbox, icebox |-> icebox, msgs |-> msgs,
     sentBytes |-> sentBytes, pendingResponses |-> pendingResponses,
     wire |-> wire, assertFailed |-> assertFailed, requeued |-> <<>>]

\* requeue, lines 196-212: the iterator the do-while loop ends at, before
\* the final ++i.  i is the iterator before `--i` (1-based; end = Len + 1).
RECURSIVE requeueScan_ignoresFirstFrames(_, _, _, _)
\* mutant: the scan does not stop at a message that has sent no frame yet
requeueScan_ignoresFirstFrames(q, ms, id, i) ==
    LET j == i - 1
    IN  IF ms[q[j]].urgent
        THEN (IF j + 1 # Len(q) + 1 THEN j + 1 ELSE j)
        ELSE IF j # 1 THEN requeueScan_ignoresFirstFrames(q, ms, id, j)
        ELSE j

RECURSIVE requeueScan_leavesNoGap(_, _, _, _)
\* mutant: the scan stops at the urgent message it finds, without stepping
\* over the message behind it
requeueScan_leavesNoGap(q, ms, id, i) ==
    LET j == i - 1
    IN  IF ms[q[j]].urgent THEN j
        ELSE IF ms[id].bytesSent = 0 /\ ms[q[j]].bytesSent = 0 THEN j
        ELSE IF j # 1 THEN requeueScan_leavesNoGap(q, ms, id, j)
        ELSE j

RECURSIVE requeueScan(_, _, _, _)
requeueScan(q, ms, id, i) ==
    LET j == i - 1
    IN  IF ms[q[j]].urgent
        THEN (IF j + 1 # Len(q) + 1 THEN j + 1 ELSE j)
        ELSE IF ms[id].bytesSent = 0 /\ ms[q[j]].bytesSent = 0 THEN j
        ELSE IF j # 1 THEN requeueScan(q, ms, id, j)
        ELSE j

\* mutant: the scan is made for every message, urgent or not
requeuePos_scansAlways(q, ms, id) ==
    IF q # <<>>
    THEN requeueScan(q, ms, id, Len(q) + 1) + 1
    ELSE Len(q) + 1

\* mutant: an urgent message goes to the head of the Outbox
requeuePos_urgentFirst(q, ms, id) ==
    IF ms[id].urgent /\ q # <<>>
    THEN 1
    ELSE Len(q) + 1

\* mutant: the iterator is not advanced after the scan
requeuePos_noIncrement(q, ms, id) ==
    IF ms[id].urgent /\ q # <<>>
    THEN requeueScan(q, ms, id, Len(q) + 1)
    ELSE Len(q) + 1

\* requeue: index at which the message is emplaced
requeuePos(q, ms, id) ==
    IF ms[id].urgent /\ q # <<>>
    THEN requeueScan(q, ms, id, Len(q) + 1) + 1
    ELSE Len(q) + 1

\* the environments in which the calls of requeue are recorded
LoggedEnvs == {"queue", "live", "after", "ack"}

\* what requeue reads of a message
QueueEntry(ms, id) ==
    [id |-> id, urgent |-> ms[id].urgent, bytesSent |-> ms[id].bytesSent]

\* history: a call of requeue, with the Outbox it found and the index at
\* which it emplaced the message
RequeueCall(s, id) ==
    [q |-> [k \in 1..Len(s.outbox) |-> QueueEntry(s.msgs, s.outbox[k])],
     msg |-> QueueEntry(s.msgs, id),
     pos |-> requeuePos(s.outbox, s.msgs, id),
     after |-> InsertAt(s.outbox, requeuePos(s.outbox, s.msgs, id), id)]

\* requeue without the trailing write
requeueOnly(s, id) ==
    [s EXCEPT !.assertFailed = @ \/ contains(s.outbox, id),
              !.outbox = InsertAt(@, requeuePos(s.outbox, s.msgs, id), id),
              !.requeued = IF env \in LoggedEnvs
                           THEN Append(@, RequeueCall(s, id)) ELSE @]

freezeMessage(s, id) ==
    [s EXCEPT !.assertFailed = @ \/ contains(s.outbox, id)
                                 \/ contains(s.icebox, id),
              !.icebox = Append(@, id)]

\* mutant: a message is kept, in the Icebox, after its last frame
afterFrame_keepsFinished(s, id, more) ==
    IF more
    THEN IF needsAck(s.msgs[id]) THEN freezeMessage(s, id)
         ELSE requeueOnly(s, id)
    ELSE freezeMessage(s, id)

\* writeToWebSocket, lines 286-302: what happens to the message after its
\* frame was sent
afterFrame(s, id, more) ==
    IF more
    THEN IF needsAck(s.msgs[id]) THEN freezeMessage(s, id)
         ELSE requeueOnly(s, id)
    ELSE IF ~isAck(s.msgs[id]) \/ BLIPLogVerbose
         THEN LET r == createResponse(s.msgs[id])
              IN  IF r = {} THEN s
                  ELSE LET resp == CHOOSE x \in r : TRUE
                       IN  [s EXCEPT !.pendingResponses =
                                MapEmplace(@, resp.number, resp)]
         ELSE s

\* mutant: the size depends on the message alone
frameMaxSize_ignoresQueue(s, id) ==
    IF s.msgs[id].urgent THEN kBigFrameSize ELSE kDefaultFrameSize

\* writeToWebSocket, lines 258-264
frameMaxSize(s, id) ==
    IF s.msgs[id].urgent \/ s.outbox = <<>>
       \/ ~s.msgs[Head(s.outbox)].urgent
    THEN kBigFrameSize
    ELSE kDefaultFrameSize

\* mutant: the payload asked for is not kept under the frame size
payloadMax_twice(maxSize) == 2 * maxSize

\* writeToWebSocket, line 265: the payload asked of nextFrameToSend
payloadMax(maxSize) == maxSize - 10

\* history: what the Outbox holds behind the message popped (in LoggedEnvs)
QueueBehind(s) ==
    IF env \notin LoggedEnvs THEN ""
    ELSE IF s.outbox = <<>> THEN "nothing"
    ELSE IF s.msgs[Head(s.outbox)].urgent THEN "urgent"
    ELSE "regular"

\* history: the messages in the Outbox behind the message popped (in
\* LoggedEnvs)
QueuedBehind(s) ==
    IF env \notin LoggedEnvs THEN {}
    ELSE {s.outbox[k] : k \in 1..Len(s.outbox)}

\* history: the queues and the numbers awaiting a response when the message
\* was popped (s1) and when the iteration ended (s3), and whether the
\* message then needed an ACK (in LoggedEnvs)
Outcome(f, s1, m, s3) ==
    IF env \notin LoggedEnvs THEN f
    ELSE [id |-> f.id, number |-> f.number, type |-> f.type, more |-> f.more,
          noReply |-> f.noReply, body |-> f.body, bytesSent |-> f.bytesSent,
          size |-> f.size, maxSize |-> f.maxSize, behind |-> f.behind,
          queued |-> f.queued,
          needsAck |-> needsAck(m),
          before |-> [outbox |-> s1.outbox, icebox |-> s1.icebox,
                      pending |-> DOMAIN s1.pendingResponses],
          after |-> [outbox |-> s3.outbox, icebox |-> s3.icebox,
                     pending |-> DOMAIN s3.pendingResponses]]

\* One iteration of the loop of writeToWebSocket with a non-empty Outbox.
writeFrame(s) ==
    LET id == Head(s.outbox)
        s1 == [s EXCEPT !.outbox = Tail(@)]
        maxSize == frameMaxSize(s1, id)
        m == s1.msgs[id]
        body == nextFrameSize(m, payloadMax(maxSize))
        m2 == nextFrameToSend(m, payloadMax(maxSize))
        more == m2.bytesSent < m2.size
        frameSize == SizeOfVarInt(m.number)
                       + SizeOfVarInt(FlagsByte(m, more)) + body
        s2 == [s1 EXCEPT !.msgs[id] = m2,
                         !.wire = Append(@, [id |-> id, number |-> m.number,
                                             type |-> m.type, more |-> more,
                                             noReply |-> m.noReply,
                                             body |-> body,
                                             bytesSent |-> m2.bytesSent,
                                             size |-> frameSize,
                                             maxSize |-> maxSize,
                                             behind |-> QueueBehind(s1),
                                             queued |-> QueuedBehind(s1)]),
                         !.sentBytes = @ + frameSize]
        s3 == afterFrame(s2, id, more)
    IN  [s3 EXCEPT !.wire[Len(s2.wire)] = Outcome(@, s1, m2, s3)]

RECURSIVE writeLoop_ignoresLimit(_)
\* mutant: the loop runs until the Outbox is empty
writeLoop_ignoresLimit(s) ==
    IF s.outbox # <<>>
    THEN writeLoop_ignoresLimit(writeFrame(s))
    ELSE s

RECURSIVE writeLoop(_)
\* writeToWebSocket, lines 251-303: the loop
writeLoop(s) ==
    IF s.sentBytes < kMaxSendSize /\ s.outbox # <<>>
    THEN writeLoop(writeFrame(s))
    ELSE s

writeToWebSocket(s) ==
    IF s.sentBytes >= kMaxSendSize THEN s ELSE writeLoop(s)

requeue(s, id, andWrite) ==
    IF andWrite THEN writeToWebSocket(requeueOnly(s, id))
    ELSE requeueOnly(s, id)

\* mutant: the message is not taken out of the Icebox
thawMessage_keepsFrozen(s, id) == requeue(s, id, TRUE)

thawMessage(s, id) ==
    requeue([s EXCEPT !.assertFailed = @ \/ ~contains(s.icebox, id),
                      !.icebox = remove(@, id)], id, TRUE)

\* receivedAck, lines 358-381.  bytes < 0: the body is no varint.
receivedAck(s, msgNo, onResponse, bytes) ==
    LET inOut == findMessage(s.outbox, s.msgs, msgNo, onResponse)
        inIce == findMessage(s.icebox, s.msgs, msgNo, onResponse)
        id == IF inOut # 0 THEN inOut ELSE inIce
        frozen == inOut = 0
    IN  IF id = 0 THEN s
        ELSE IF bytes < 0 THEN s
        ELSE LET s1 == [s EXCEPT !.msgs[id] = msgReceivedAck(@, bytes)]
             IN  IF frozen /\ ~needsAck(s1.msgs[id]) THEN thawMessage(s1, id)
                 ELSE s1

\* Writes a resulting OutState back to the variables.
SetOut(s) ==
    /\ outbox' = s.outbox
    /\ icebox' = s.icebox
    /\ msgs' = s.msgs
    /\ sentBytes' = s.sentBytes
    /\ pendingResponses' = s.pendingResponses
    /\ wire' = s.wire
    /\ assertFailed' = s.assertFailed
    /\ requeued' = s.requeued

(* ------------------------- BLIPIO: incoming side ------------------------ *)

\* The frames the peer can send.  profile: the Profile property of the
\* message body (read from a request's first frame); ack: the payload brings
\* the MessageIn's unacknowledged bytes to its ACK interval; bytes: the byte
\* count in an ACK frame's body.
MessageFrames ==
    [binary : {TRUE}, hdr : {TRUE}, type : {"REQ"}, msgNo : 1..MaxNo,
     more : BOOLEAN, profile : Profiles \cup {""}, ack : BOOLEAN, bytes : {0}]
    \cup
    [binary : {TRUE}, hdr : {TRUE}, type : {"RES", "ERR"}, msgNo : 1..MaxNo,
     more : BOOLEAN, profile : {""}, ack : BOOLEAN, bytes : {0}]

AckFrames ==
    [binary : {TRUE}, hdr : {TRUE}, type : {"ACKREQ", "AKRES"},
     msgNo : 1..MaxNo, more : {FALSE}, profile : {""}, ack : {FALSE},
     bytes : AckBytes]

BadFrames ==
    {[NoFrame EXCEPT !.binary = FALSE], [NoFrame EXCEPT !.hdr = FALSE],
     [NoFrame EXCEPT !.type = "?3?", !.msgNo = 1]}

Frames == MessageFrames \cup AckFrames \cup BadFrames

CloseStatuses ==
    [reason : {kWebSocketClose, kPOSIXError, kNetworkError, kException,
               kUnknownError},
     code : {kCodeNormal, kCodeGoingAway, kCodeProtocolError}]

\* pendingRequest, lines 385-403: the MessageIn returned (or none), whether
\* it was created by this call, the new _pendingRequests and the new
\* _numRequestsReceived
\* mutant: the request number is not compared with _numRequestsReceived + 1
pendingRequest_anyNumber(f) ==
    IF f.msgNo \in DOMAIN pendingRequests
    THEN [msg |-> {pendingRequests[f.msgNo]}, created |-> FALSE,
          pending |-> IF ~f.more THEN MapErase(pendingRequests, f.msgNo)
                      ELSE pendingRequests,
          num |-> numRequestsReceived]
    ELSE LET msg == [number |-> f.msgNo, type |-> "REQ",
                     profile |-> f.profile]
         IN  [msg |-> {msg}, created |-> TRUE,
              pending |-> IF f.more
                          THEN MapEmplace(pendingRequests, f.msgNo, msg)
                          ELSE pendingRequests,
              num |-> numRequestsReceived + 1]

\* mutant: a new request is added to _pendingRequests even if it is a
\* singleton frame
pendingRequest_keepsSingleton(f) ==
    IF f.msgNo \in DOMAIN pendingRequests
    THEN [msg |-> {pendingRequests[f.msgNo]}, created |-> FALSE,
          pending |-> IF ~f.more THEN MapErase(pendingRequests, f.msgNo)
                      ELSE pendingRequests,
          num |-> numRequestsReceived]
    ELSE IF f.msgNo = numRequestsReceived + 1
    THEN LET msg == [number |-> f.msgNo, type |-> "REQ",
                     profile |-> f.profile]
         IN  [msg |-> {msg}, created |-> TRUE,
              pending |-> MapEmplace(pendingRequests, f.msgNo, msg),
              num |-> numRequestsReceived + 1]
    ELSE [msg |-> {}, created |-> FALSE, pending |-> pendingRequests,
          num |-> numRequestsReceived]

pendingRequest(f) ==
    IF f.msgNo \in DOMAIN pendingRequests
    THEN [msg |-> {pendingRequests[f.msgNo]}, created |-> FALSE,
          pending |-> IF ~f.more THEN MapErase(pendingRequests, f.msgNo)
                      ELSE pendingRequests,
          num |-> numRequestsReceived]
    ELSE IF f.msgNo = numRequestsReceived + 1
    THEN LET msg == [number |-> f.msgNo, type |-> "REQ",
                     profile |-> f.profile]
         IN  [msg |-> {msg}, created |-> TRUE,
              pending |-> IF f.more
                          THEN MapEmplace(pendingRequests, f.msgNo, msg)
                          ELSE pendingRequests,
              num |-> numRequestsReceived + 1]
    ELSE [msg |-> {}, created |-> FALSE, pending |-> pendingRequests,
          num |-> numRequestsReceived]

\* mutant: the entry stays in _pendingResponses after the last frame
pendingResponse_keepsEntry(pr, f) ==
    IF f.msgNo \in DOMAIN pr
    THEN [msg |-> {pr[f.msgNo]}, pending |-> pr]
    ELSE [msg |-> {}, pending |-> pr]

\* mutant: the entry is erased whatever the MoreComing flag
pendingResponse_erasesAlways(pr, f) ==
    IF f.msgNo \in DOMAIN pr
    THEN [msg |-> {pr[f.msgNo]}, pending |-> MapErase(pr, f.msgNo)]
    ELSE [msg |-> {}, pending |-> pr]

\* pendingResponse, lines 407-418, on the given _pendingResponses
pendingResponse(pr, f) ==
    IF f.msgNo \in DOMAIN pr
    THEN [msg |-> {pr[f.msgNo]},
          pending |-> IF ~f.more THEN MapErase(pr, f.msgNo) ELSE pr]
    ELSE [msg |-> {}, pending |-> pr]

\* MessageIn::receivedFrame: true iff the message is complete
receivedFrame(f) == ~f.more

\* handleRequest, lines 429-445: the callback made for a complete request
Call(cb, no) == [cb |-> cb, no |-> no, arg |-> ""]

handlerCall(msg) ==
    [cb |-> "handler", no |-> msg.number, arg |-> requestHandlers[msg.profile]]

\* mutant: no return after the handler was called
handleRequest_fallsThrough(msg) ==
    IF msg.profile # "" /\ msg.profile \in DOMAIN requestHandlers
    THEN <<handlerCall(msg), Call("onRequestReceived", msg.number)>>
    ELSE <<Call("onRequestReceived", msg.number)>>

handleRequest(msg) ==
    IF msg.profile # "" /\ msg.profile \in DOMAIN requestHandlers
    THEN <<handlerCall(msg)>>
    ELSE <<Call("onRequestReceived", msg.number)>>

\* What a request callback does: returns, responds (MessageIn::respond), or
\* throws (caught in handleRequest, which responds with an error).
Outcomes == {"return", "respond", "throw"}

(* ----------------------------- environments ---------------------------- *)

\* What the application and the peer do in one run: how many messages the
\* application sends and with which flags and sizes, which frames the peer
\* sends, what request callbacks do, how the transport closes; keepRx: the
\* history rx is kept (by the environments whose properties read it).
EnvAll ==
    [maxOut |-> 3, maxIn |-> 3, maxWriteable |-> 2, maxClose |-> 2,
     maxSetHandler |-> 1, maxMailbox |-> 2, keepRx |-> TRUE,
     urgent |-> BOOLEAN, noReply |-> BOOLEAN, sizes |-> MsgSizes,
     frames |-> Frames, outcomes |-> Outcomes, handlers |-> Handlers,
     statuses |-> CloseStatuses]

\* Outgoing path: requests of any priority and size, ACK frames from the
\* peer, writeable signals, close.
OutSends == 3
OutFrames == 2
OutWriteables == 2
OutCloses == 1
OutMailbox == 1

EnvOut ==
    [maxOut |-> OutSends, maxIn |-> OutFrames, maxWriteable |-> OutWriteables,
     maxClose |-> OutCloses, maxSetHandler |-> 0, maxMailbox |-> OutMailbox,
     keepRx |-> FALSE,
     urgent |-> BOOLEAN, noReply |-> {TRUE}, sizes |-> MsgSizes,
     frames |-> {f \in AckFrames : f.type = "ACKREQ"}, outcomes |-> {"return"},
     handlers |-> Handlers,
     statuses |-> {[reason |-> kWebSocketClose, code |-> kCodeNormal]}]

\* Incoming requests: request frames of any number, with and without
\* MoreComing, a profile handler that is set or removed, callbacks that
\* return, respond or throw, ACKs and replies going out.
InFrames == 3
InReplies == 2
InWriteables == 1
InCloses == 1
InSetHandlers == 1
InMailbox == 1

EnvIn ==
    [maxOut |-> InReplies, maxIn |-> InFrames, maxWriteable |-> InWriteables,
     maxClose |-> InCloses, maxSetHandler |-> InSetHandlers,
     maxMailbox |-> InMailbox, keepRx |-> TRUE,
     urgent |-> {}, noReply |-> {}, sizes |-> {},
     frames |-> {f \in MessageFrames : f.type = "REQ"},
     outcomes |-> Outcomes,
     handlers |-> Handlers,
     statuses |-> {[reason |-> kWebSocketClose, code |-> kCodeNormal]}]

\* Requests and their responses: requests with and without NoReply, of one
\* frame or of ten, response and error frames of any number.
RRSends == 2
RRFrames == 2
RRWriteables == 1
RRCloses == 1
RRMailbox == 1
RRSizes == {100, 40000}

EnvRR ==
    [maxOut |-> RRSends, maxIn |-> RRFrames, maxWriteable |-> RRWriteables,
     maxClose |-> RRCloses, maxSetHandler |-> 0, maxMailbox |-> RRMailbox,
     keepRx |-> TRUE,
     urgent |-> {FALSE}, noReply |-> BOOLEAN, sizes |-> RRSizes,
     frames |-> {f \in MessageFrames :
                    f.type # "REQ" /\ ~f.ack /\ f.msgNo <= RRSends},
     outcomes |-> {"return"},
     handlers |-> Handlers,
     statuses |-> {[reason |-> kWebSocketClose, code |-> kCodeNormal]}]

\* The life of the connection: the application closes at any moment, the
\* transport connects, fails or closes with any status, one request goes
\* each way.
ConnSends == 1
ConnFrames == 2
ConnWriteables == 1
ConnCloses == 2
ConnSetHandlers == 1
ConnMailbox == 2

EnvConn ==
    [maxOut |-> ConnSends, maxIn |-> ConnFrames,
     maxWriteable |-> ConnWriteables, maxClose |-> ConnCloses,
     maxSetHandler |-> ConnSetHandlers, maxMailbox |-> ConnMailbox,
     keepRx |-> FALSE,
     urgent |-> {FALSE}, noReply |-> {FALSE}, sizes |-> {100},
     frames |-> {f \in MessageFrames :
                    f.msgNo = 1 /\ ~f.more /\ ~f.ack /\ f.type # "ERR"},
     outcomes |-> {"return"},
     handlers |-> Handlers,
     statuses |-> CloseStatuses]

\* Dispatch: handlers set, replaced and removed for a profile while
\* single-frame requests with and without the profile come in.
DispFrames == 2
DispReplies == 1
DispWriteables == 1
DispCloses == 1
DispSetHandlers == 2
DispMailbox == 2
DispHandlers == {"h1", "h2"}

EnvDisp ==
    [maxOut |-> DispReplies, maxIn |-> DispFrames,
     maxWriteable |-> DispWriteables, maxClose |-> DispCloses,
     maxSetHandler |-> DispSetHandlers, maxMailbox |-> DispMailbox,
     keepRx |-> TRUE,
     urgent |-> {}, noReply |-> {}, sizes |-> {},
     frames |-> {f \in MessageFrames :
                    f.type = "REQ" /\ ~f.more /\ ~f.ack},
     outcomes |-> {"return", "throw"},
     handlers |-> DispHandlers,
     statuses |-> {[reason |-> kWebSocketClose, code |-> kCodeNormal]}]

\* Numbering: new requests, and the replies and ACKs to an incoming request
\* that come with its number, queued in any order; ACKs from the peer thaw
\* a frozen request.
NumMessages == 3
NumFrames == 2
NumWriteables == 1
NumCloses == 1
NumMailbox == 1

EnvNum ==
    [maxOut |-> NumMessages, maxIn |-> NumFrames,
     maxWriteable |-> NumWriteables, maxClose |-> NumCloses,
     maxSetHandler |-> 0, maxMailbox |-> NumMailbox,
     keepRx |-> FALSE,
     urgent |-> BOOLEAN, noReply |-> {TRUE}, sizes |-> MsgSizes,
     frames |-> {f \in MessageFrames :
                    f.type = "REQ" /\ f.msgNo = 1 /\ ~f.more}
                \cup {f \in AckFrames : f.type = "ACKREQ" /\ f.msgNo <= 2},
     outcomes |-> {"return", "respond"},
     handlers |-> Handlers,
     statuses |-> {[reason |-> kWebSocketClose, code |-> kCodeNormal]}]

\* Protocol errors: frames that are not binary, have no readable header or
\* an unknown type, requests with any number and responses to any number,
\* among well-formed requests and the response to a request sent.
ProtMessages == 1
ProtNumbers == 2
ProtFrames == 3
ProtWriteables == 1
ProtCloses == 1
ProtMailbox == 1

EnvProt ==
    [maxOut |-> ProtMessages, maxIn |-> ProtFrames,
     maxWriteable |-> ProtWriteables, maxClose |-> ProtCloses,
     maxSetHandler |-> 0, maxMailbox |-> ProtMailbox,
     keepRx |-> TRUE,
     urgent |-> {FALSE}, noReply |-> {FALSE}, sizes |-> {100},
     frames |-> BadFrames
                \cup {f \in MessageFrames :
                         /\ f.type # "ERR" /\ ~f.ack /\ f.profile = ""
                         /\ f.msgNo <= ProtNumbers
                         /\ f.more => f.type = "REQ"},
     outcomes |-> {"return"},
     handlers |-> Handlers,
     statuses |-> {[reason |-> kWebSocketClose, code |-> kCodeNormal]}]

\* Priorities: four requests of several frames each, urgent or not, queued
\* while the transport takes sendable batches.
PrioSends == 4
PrioWriteables == 2
PrioCloses == 1
PrioMailbox == 2
PrioSizes == {40000}

EnvPrio ==
    [maxOut |-> PrioSends, maxIn |-> 0,
     maxWriteable |-> PrioWriteables, maxClose |-> PrioCloses,
     maxSetHandler |-> 0, maxMailbox |-> PrioMailbox,
     keepRx |-> FALSE,
     urgent |-> BOOLEAN, noReply |-> {TRUE}, sizes |-> PrioSizes,
     frames |-> {},
     outcomes |-> {"return"},
     handlers |-> Handlers,
     statuses |-> {[reason |-> kWebSocketClose, code |-> kCodeNormal]}]

\* requeue: urgent and non-urgent requests of several frames
QueueSends == 5
QueueWriteables == 2
QueueCloses == 1
QueueMailbox == 2
QueueSizes == {40000}

EnvQueue ==
    [maxOut |-> QueueSends, maxIn |-> 0,
     maxWriteable |-> QueueWriteables, maxClose |-> QueueCloses,
     maxSetHandler |-> 0, maxMailbox |-> QueueMailbox,
     keepRx |-> FALSE,
     urgent |-> BOOLEAN, noReply |-> {TRUE}, sizes |-> QueueSizes,
     frames |-> {},
     outcomes |-> {"return"},
     handlers |-> Handlers,
     statuses |-> {[reason |-> kWebSocketClose, code |-> kCodeNormal]}]

\* frames to encode: message numbers around every length of varint, up to
\* 2^64 - 1
Pow2(k) == [i \in 1..4 |-> IF i = (k \div 16) + 1 THEN 2 ^ (k % 16) ELSE 0]

Pow2Less1(k) ==
    [i \in 1..4 |-> IF i < (k \div 16) + 1 THEN 65535
                    ELSE IF i = (k \div 16) + 1 THEN 2 ^ (k % 16) - 1
                    ELSE 0]

FrameNumbers ==
    {Limbs(0, 0, 0, 0), Limbs(1, 0, 0, 0),
     Limbs(65535, 65535, 65535, 65535)}
        \cup {Pow2(7 * j) : j \in 1..9} \cup {Pow2Less1(7 * j) : j \in 1..9}
        \cup {Pow2(63)}

FrameFlagBytes == 0..255

FrameLefts == {1, 4086, 4087, 16374, 16375, 70000}

\* the frame buffer is written beside a connection that is left alone
EnvFrame == EnvOut

\* after a frame: requests that do and do not expect a reply, short and
\* long enough to wait for an ACK
AfterSends == 3
AfterWriteables == 2
AfterCloses == 1
AfterMailbox == 2
AfterSizes == {100, 70000}

EnvAfter ==
    [maxOut |-> AfterSends, maxIn |-> 0,
     maxWriteable |-> AfterWriteables, maxClose |-> AfterCloses,
     maxSetHandler |-> 0, maxMailbox |-> AfterMailbox,
     keepRx |-> FALSE,
     urgent |-> BOOLEAN, noReply |-> BOOLEAN, sizes |-> AfterSizes,
     frames |-> {},
     outcomes |-> {"return"},
     handlers |-> Handlers,
     statuses |-> {[reason |-> kWebSocketClose, code |-> kCodeNormal]}]

\* progress: a fixed set of urgent and non-urgent requests, some long enough
\* to wait for an ACK; the peer sends the ACKs they wait for and the
\* transport reports room whenever the write loop has used up its budget
LiveSends == 3
LiveAcks == 3
LiveWriteables == 6
LiveMailbox == 2
LiveSizes == {20000, 70000}

EnvLive ==
    [maxOut |-> LiveSends, maxIn |-> LiveAcks,
     maxWriteable |-> LiveWriteables, maxClose |-> 0,
     maxSetHandler |-> 0, maxMailbox |-> LiveMailbox,
     keepRx |-> FALSE,
     urgent |-> BOOLEAN, noReply |-> {TRUE}, sizes |-> LiveSizes,
     frames |-> {f \in AckFrames : f.type = "ACKREQ" /\ f.bytes = 40000},
     outcomes |-> {"return"},
     handlers |-> Handlers,
     statuses |-> {[reason |-> kWebSocketClose, code |-> kCodeNormal]}]

\* ACKs from the peer: long requests that get frozen, ACK frames of both
\* kinds for any of them with a byte count that thaws, one that does not and
\* one that cannot be read, and a request of the peer that makes an ACK of
\* the same number go out
AckSends == 3
AckIn == 2
AckWriteables == 1
AckCloses == 1
AckMailbox == 1
AckSizes == {70000}

EnvAck ==
    [maxOut |-> AckSends, maxIn |-> AckIn,
     maxWriteable |-> AckWriteables, maxClose |-> AckCloses,
     maxSetHandler |-> 0, maxMailbox |-> AckMailbox,
     keepRx |-> TRUE,
     urgent |-> {FALSE}, noReply |-> {TRUE}, sizes |-> AckSizes,
     frames |-> {f \in AckFrames : f.type = "ACKREQ" /\ f.msgNo <= 2}
                \cup {f \in AckFrames : f.type = "AKRES" /\ f.msgNo = 1
                                          /\ f.bytes = 0}
                \cup {f \in MessageFrames :
                         /\ f.type = "REQ" /\ f.msgNo = 1 /\ ~f.more
                         /\ f.profile = "" /\ f.ack},
     outcomes |-> {"return"},
     handlers |-> Handlers,
     statuses |-> {[reason |-> kWebSocketClose, code |-> kCodeNormal]}]

\* the Batcher runs beside a connection that is left alone
EnvBatcher == EnvOut

\* so does the MessageBuilder
EnvBuilder == EnvOut

\* the life of the connection with a transport that reports its close twice
EnvTwice == EnvConn

\* the mock transport runs beside a connection that is left alone
EnvMock == EnvOut

\* events after the close: the application goes on sending and setting
\* handlers, and the transport goes on delivering frames of every type
LateSends == 1
LateFrames == 2
LateWriteables == 1
LateCloses == 1
LateSetHandlers == 1
LateMailbox == 2

EnvLate ==
    [maxOut |-> LateSends, maxIn |-> LateFrames,
     maxWriteable |-> LateWriteables, maxClose |-> LateCloses,
     maxSetHandler |-> LateSetHandlers, maxMailbox |-> LateMailbox,
     keepRx |-> TRUE,
     urgent |-> {FALSE}, noReply |-> {FALSE}, sizes |-> {100},
     frames |-> {f \in MessageFrames :
                    f.msgNo <= 2 /\ ~f.ack /\ f.type # "ERR"}
                \cup {f \in AckFrames : f.msgNo = 1 /\ f.bytes = 0},
     outcomes |-> {"return"},
     handlers |-> Handlers,
     statuses |-> {[reason |-> kWebSocketClose, code |-> kCodeNormal]}]

Envs ==
    [all |-> EnvAll, out |-> EnvOut, in |-> EnvIn, rr |-> EnvRR,
     conn |-> EnvConn, disp |-> EnvDisp, num |-> EnvNum, prot |-> EnvProt,
     prio |-> EnvPrio, queue |-> EnvQueue, frm |-> EnvFrame,
     batcher |-> EnvBatcher, live |-> EnvLive, after |-> EnvAfter,
     ack |-> EnvAck, builder |-> EnvBuilder, twice |-> EnvTwice,
     late |-> EnvLate, mock |-> EnvMock]

E == Envs[env]

(* ---------------------------- MessageBuilder ---------------------------- *)

\* Strings are sequences of bytes.  kSpecialProperties, lines 23-41: the
\* strings that are written as one byte, their index in the table plus one.
kSpecialProperties ==
    <<
      <<80, 114, 111, 102, 105, 108, 101>>,   \* Profile
      <<69, 114, 114, 111, 114, 45, 67, 111, 100, 101>>,   \* Error-Code
      <<69, 114, 114, 111, 114, 45, 68, 111, 109, 97, 105, 110>>,   \* Error-Domain
      <<67, 111, 110, 116, 101, 110, 116, 45, 84, 121, 112, 101>>,   \* Content-Type
      <<97, 112, 112, 108, 105, 99, 97, 116, 105, 111, 110, 47, 106, 115, 111, 110>>,   \* application/json
      <<97, 112, 112, 108, 105, 99, 97, 116, 105, 111, 110, 47, 111, 99, 116, 101, 116, 45, 115, 116, 114, 101, 97, 109>>,   \* application/octet-stream
      <<116, 101, 120, 116, 47, 112, 108, 97, 105, 110, 59, 32, 99, 104, 97, 114, 115, 101, 116, 61, 85, 84, 70, 45, 56>>,   \* text/plain; charset=UTF-8
      <<116, 101, 120, 116, 47, 120, 109, 108>>,   \* text/xml
      <<65, 99, 99, 101, 112, 116>>,   \* Accept
      <<67, 97, 99, 104, 101, 45, 67, 111, 110, 116, 114, 111, 108>>,   \* Cache-Control
      <<109, 117, 115, 116, 45, 114, 101, 118, 97, 108, 105, 100, 97, 116, 101>>,   \* must-revalidate
      <<73, 102, 45, 77, 97, 116, 99, 104>>,   \* If-Match
      <<73, 102, 45, 78, 111, 110, 101, 45, 77, 97, 116, 99, 104>>,   \* If-None-Match
      <<76, 111, 99, 97, 116, 105, 111, 110>>   \* Location
    >>

\* tokenizeProperty, lines 95-101 (0: not in the table)
tokenizeProperty(property) ==
    IF \E i \in 1..Len(kSpecialProperties) : kSpecialProperties[i] = property
    THEN CHOOSE i \in 1..Len(kSpecialProperties) :
            /\ kSpecialProperties[i] = property
            /\ \A j \in 1..(i - 1) : kSpecialProperties[j] # property
    ELSE 0

\* writeTokenizedString, lines 104-115: what the stream out holds afterwards
writeTokenizedString(out, str) ==
    IF tokenizeProperty(str) # 0
    THEN out \o <<tokenizeProperty(str), 0>>
    ELSE out \o str \o <<0>>

\* std::basic_ios::clear(), as called on _properties in lines 135 and 187:
\* it resets the error flags of the stream; the characters written to the
\* stream stay in its buffer
clear(stream) == stream

\* a default-constructed MessageBuilder
NewBuilder ==
    [type |-> "REQ", urgent |-> FALSE, compressed |-> FALSE,
     noreply |-> FALSE, onProgress |-> FALSE,
     out |-> <<>>, properties |-> <<>>, wroteProperties |-> FALSE,
     propertiesLength |-> 0]

\* addProperty(slice, slice), lines 118-123, without its assertion
addProperty(b, name, value) ==
    [b EXCEPT !.properties =
                  writeTokenizedString(writeTokenizedString(@, name), value)]

\* MessageBuilder(slice profile), lines 47-51
MessageBuilder(profile) ==
    IF profile # <<>>
    THEN addProperty(NewBuilder, kSpecialProperties[1], profile)
    ELSE NewBuilder

\* finishProperties, lines 132-144
finishProperties(b) ==
    IF b.wroteProperties THEN b
    ELSE LET properties == b.properties
             encodedSize == PutUVarInt(Limbs(Len(properties), 0, 0, 0))
         IN  [b EXCEPT !.properties = clear(@),
                       !.out = @ \o encodedSize \o properties,
                       !.wroteProperties = TRUE,
                       !.propertiesLength =
                           Len(b.out) + Len(encodedSize) + Len(properties)]

\* write, lines 147-152
write(b, data) ==
    [finishProperties(b) EXCEPT !.out = @ \o data]

RECURSIVE RunLength(_)
\* the deflate stream of the body, modelled as its runs: <<length, byte>>
RunLength(body) ==
    IF body = <<>> THEN <<>>
    ELSE LET n == CHOOSE k \in 1..Len(body) :
                    /\ \A i \in 1..k : body[i] = body[1]
                    /\ (k = Len(body) \/ body[k + 1] # body[1])
         IN  <<n, body[1]>> \o RunLength(SubSeq(body, n + 1, Len(body)))

\* GZipCompressor::compress: the gzip header (its two magic bytes) and the
\* deflate stream
GZipCompress(body) == <<31, 139>> \o RunLength(body)

\* GZipCompressor::finish: the trailer (the length of the input)
GZipFinish(body) == <<Len(body) % 256>>

\* mutant: the compressed body is adopted when it is no longer
adoptsCompressed_notLonger(zipped, plain) == zipped <= plain

\* extractOutput, line 169: len1 + len2 < (output.size - _propertiesLength)
adoptsCompressed(zipped, plain) == zipped < plain

\* extractOutput, lines 155-180: the builder afterwards, the output, and
\* the output of _out.finish() (plain), which leaves _out empty
extractOutput(b) ==
    LET b1 == finishProperties(b)
        output == b1.out
        b2 == [b1 EXCEPT !.out = <<>>]
        body == SubSeq(output, b1.propertiesLength + 1, Len(output))
        zip1 == GZipCompress(body)
        zip2 == GZipFinish(body)
        adopt == /\ b1.compressed
                 /\ Len(output) > b1.propertiesLength
                 /\ adoptsCompressed(Len(zip1) + Len(zip2), Len(body))
    IN  [builder |-> [b2 EXCEPT !.compressed = adopt],
         plain |-> output,
         output |-> IF adopt
                    THEN SubSeq(output, 1, b1.propertiesLength) \o zip1 \o zip2
                    ELSE output]

\* reset, lines 183-190
reset(b) ==
    [b EXCEPT !.onProgress = FALSE,
              !.urgent = FALSE, !.compressed = FALSE, !.noreply = FALSE,
              !.out = <<>>,
              !.properties = clear(@),
              !.wroteProperties = FALSE,
              !.propertiesLength = 0]

(* ------------------------ MessageBuilder: actions ----------------------- *)

\* calls made on one builder
BuilderOps == 5
\* 'e'; Profile, 'X'; text/xml, the empty string
BuilderProfiles == {<<>>, <<101>>}
BuilderNames == {kSpecialProperties[1], <<88>>}
BuilderValues == {kSpecialProperties[8], <<>>}
\* bodies with runs of equal bytes, as long as, longer and shorter than
\* their compressed forms
BuilderData ==
    {<<65, 65, 65, 65, 65>>, <<65, 65, 65, 65, 65, 65>>,
     <<65, 66, 65, 66, 65, 66>>}

\* history: the last call (op), what extractOutput returned (output) and got
\* from _out.finish() (plain), whether compression was asked for (asked);
\* the properties and body bytes added since the last reset (props, body)
\* and the properties added since construction (allProps); whether
\* extractOutput was called since the last reset (extracted), and before the
\* last call of it (again); the resets and the calls so far
NoBuilt ==
    [op |-> "none", output |-> <<>>, plain |-> <<>>, asked |-> FALSE,
     props |-> <<>>, body |-> <<>>, allProps |-> <<>>, extracted |-> FALSE,
     again |-> FALSE, resets |-> 0, n |-> 0, assertFailed |-> FALSE]

Built(op) == [built EXCEPT !.op = op, !.n = @ + 1]

builderAddProperty ==
    /\ built.n < BuilderOps
    /\ \E name \in BuilderNames, value \in BuilderValues :
          /\ builder' = addProperty(builder, name, value)
          /\ built' = [Built("addProperty") EXCEPT
                          !.props = Append(@, <<name, value>>),
                          !.allProps = Append(@, <<name, value>>),
                          !.assertFailed = @ \/ builder.wroteProperties]
    /\ UNCHANGED <<blipVars, batcherVars, frame, mock>>

builderWrite ==
    /\ built.n < BuilderOps
    /\ \E data \in BuilderData :
          /\ builder' = write(builder, data)
          /\ built' = [Built("write") EXCEPT !.body = @ \o data]
    /\ UNCHANGED <<blipVars, batcherVars, frame, mock>>

\* the application sets one of the public flags
builderSet ==
    /\ built.n < BuilderOps
    /\ \E flag \in {"urgent", "compressed", "noreply"} :
          builder' = [builder EXCEPT ![flag] = TRUE]
    /\ built' = Built("set")
    /\ UNCHANGED <<blipVars, batcherVars, frame, mock>>

builderExtractOutput ==
    /\ built.n < BuilderOps
    /\ LET r == extractOutput(builder)
       IN  /\ builder' = r.builder
           /\ built' = [Built("extractOutput") EXCEPT
                           !.output = r.output, !.plain = r.plain,
                           !.asked = builder.compressed,
                           !.again = built.extracted,
                           !.extracted = TRUE]
    /\ UNCHANGED <<blipVars, batcherVars, frame, mock>>

builderReset ==
    /\ built.n < BuilderOps
    /\ builder' = reset(builder)
    /\ built' = [Built("reset") EXCEPT !.props = <<>>, !.body = <<>>,
                                      !.extracted = FALSE,
                                      !.resets = @ + 1]
    /\ UNCHANGED <<blipVars, batcherVars, frame, mock>>

NextBuilder ==
    \/ builderAddProperty
    \/ builderWrite
    \/ builderSet
    \/ builderExtractOutput
    \/ builderReset

(* ------------------- MockWebSocket and its Driver ----------------------- *)

\* calls made on one MockWebSocket
MockOps == 4
\* status codes passed to close(), and statuses passed to simulateClosed()
MockCodes == {kCodeNormal, kCodeGoingAway}
MockStatuses ==
    {[reason |-> kWebSocketClose, code |-> kCodeGoingAway],
     [reason |-> kNetworkError, code |-> 2]}

\* The Driver of a new MockWebSocket: _isOpen, _webSocket # nullptr, the
\* actor's mailbox and the events enqueued with a latency that has not
\* passed.  History: the callbacks made on the delegate (calls), the close()
\* requests with whether the driver was open when close() was called and
\* whether Driver::_close has run for it (closes), the calls made on the
\* MockWebSocket (n), a failed DebugAssert, and a fault on a null _webSocket.
NewDriver ==
    [isOpen |-> FALSE, webSocket |-> TRUE, mailbox |-> <<>>, delayed |-> {},
     calls |-> <<>>, closes |-> <<>>, n |-> 0, assertFailed |-> FALSE,
     fault |-> FALSE]

DriverEvent(op, status, k) == [op |-> op, status |-> status, k |-> k]

\* a callback on the delegate
Callback(cb, status) == [cb |-> cb, status |-> status]

\* Actor::enqueue on the driver
driverEnqueue(d, ev) == [d EXCEPT !.mailbox = Append(@, ev), !.n = @ + 1]

\* Actor::enqueueAfter on the driver: with a latency the event reaches the
\* mailbox later
driverEnqueueAfter(d, ev, late) ==
    IF late THEN [d EXCEPT !.delayed = @ \cup {ev}, !.n = @ + 1]
    ELSE driverEnqueue(d, ev)

MockCanCall ==
    /\ ~mock.fault
    /\ mock.n < MockOps
    /\ UNCHANGED <<blipVars, batcherVars, frame, builder, built>>

\* MockWebSocket::connect, lines 40-44
mockConnect ==
    /\ MockCanCall
    /\ mock' = driverEnqueue(mock, DriverEvent("_connect", NoStatus, mock.n))

\* MockWebSocket::close, lines 46-48
mockClose ==
    /\ MockCanCall
    /\ \E code \in MockCodes :
          mock' = [driverEnqueue(mock,
                       DriverEvent("_close",
                                   [reason |-> kWebSocketClose, code |-> code],
                                   Len(mock.closes) + 1))
                   EXCEPT !.closes = Append(@, [code |-> code,
                                                open |-> mock.isOpen,
                                                handled |-> FALSE])]

\* MockWebSocket::send, lines 50-53
mockSend ==
    /\ MockCanCall
    /\ mock' = driverEnqueue(mock, DriverEvent("_send", NoStatus, mock.n))

\* MockWebSocket::simulateConnected, lines 64-66
mockSimulateConnected ==
    /\ MockCanCall
    /\ \E late \in BOOLEAN :
          mock' = driverEnqueueAfter(mock,
                      DriverEvent("_simulateConnected", NoStatus, mock.n), late)

\* MockWebSocket::simulateReceived, lines 68-73
mockSimulateReceived ==
    /\ MockCanCall
    /\ \E late \in BOOLEAN :
          mock' = driverEnqueueAfter(mock,
                      DriverEvent("_simulateReceived", NoStatus, mock.n), late)

\* MockWebSocket::simulateClosed, lines 75-83
mockSimulateClosed ==
    /\ MockCanCall
    /\ \E status \in MockStatuses, late \in BOOLEAN :
          mock' = driverEnqueueAfter(mock,
                      DriverEvent("_simulateClosed", status, mock.n), late)

\* the latency of an event enqueued with enqueueAfter has passed
driverDelayPassed ==
    /\ ~mock.fault
    /\ \E ev \in mock.delayed :
          mock' = [mock EXCEPT !.delayed = @ \ {ev},
                               !.mailbox = Append(@, ev)]
    /\ UNCHANGED <<blipVars, batcherVars, frame, builder, built>>

\* the driver's actor takes the event op off its mailbox
DriverHandles(op) ==
    /\ ~mock.fault
    /\ mock.mailbox # <<>>
    /\ Head(mock.mailbox).op = op
    /\ UNCHANGED <<blipVars, batcherVars, frame, builder, built>>

DriverTaken == [mock EXCEPT !.mailbox = Tail(@)]

\* what a call through _webSocket can do: go through, or, with _webSocket
\* null (after Driver::_closed), go through anyway or end the process
DerefOutcomes(d) == IF d.webSocket THEN {"ok"} ELSE {"ok", "fault"}

\* Driver::_simulateConnected, lines 138-143
doSimulateConnected(d, how) ==
    IF how = "fault"
    THEN [d EXCEPT !.assertFailed = @ \/ d.isOpen, !.isOpen = TRUE,
                   !.fault = TRUE]
    ELSE [d EXCEPT !.assertFailed = @ \/ d.isOpen, !.isOpen = TRUE,
                   !.calls = Append(@, Callback("onWebSocketConnect",
                                                NoStatus))]

\* Driver::_closed, lines 127-130
doClosed(d) == [d EXCEPT !.webSocket = FALSE]

\* mutant: _simulateClosed does not test _isOpen
closeIsDropped_never(d) == FALSE

\* _simulateClosed, lines 152-153: if (!_isOpen) return
closeIsDropped(d) == ~d.isOpen

\* Driver::_simulateClosed, lines 151-161
doSimulateClosed(d, status, how) ==
    IF closeIsDropped(d) THEN d
    ELSE IF how = "fault" THEN [d EXCEPT !.isOpen = FALSE, !.fault = TRUE]
    ELSE doClosed([d EXCEPT !.isOpen = FALSE,
                            !.calls = Append(@, Callback("onWebSocketClose",
                                                         status))])

\* Driver::_connect, lines 108-110
Driver_connect ==
    /\ DriverHandles("_connect")
    /\ \E how \in DerefOutcomes(mock) :
          mock' = doSimulateConnected(DriverTaken, how)

Driver_simulateConnected ==
    /\ DriverHandles("_simulateConnected")
    /\ \E how \in DerefOutcomes(mock) :
          mock' = doSimulateConnected(DriverTaken, how)

\* Driver::_close, lines 116-118
Driver_close ==
    /\ DriverHandles("_close")
    /\ \E how \in DerefOutcomes(mock) :
          mock' = [doSimulateClosed(DriverTaken, Head(mock.mailbox).status, how)
                   EXCEPT !.closes[Head(mock.mailbox).k].handled = TRUE]

Driver_simulateClosed ==
    /\ DriverHandles("_simulateClosed")
    /\ \E how \in DerefOutcomes(mock) :
          mock' = doSimulateClosed(DriverTaken, Head(mock.mailbox).status, how)

\* Driver::_send, lines 120-125
Driver_send ==
    /\ DriverHandles("_send")
    /\ \E how \in DerefOutcomes(mock) :
          mock' = IF ~mock.isOpen THEN DriverTaken
                  ELSE IF how = "fault" THEN [DriverTaken EXCEPT !.fault = TRUE]
                  ELSE [DriverTaken EXCEPT
                           !.calls = Append(@, Callback("onWebSocketWriteable",
                                                        NoStatus))]

\* Driver::_simulateReceived, lines 145-150
Driver_simulateReceived ==
    /\ DriverHandles("_simulateReceived")
    /\ \E how \in DerefOutcomes(mock) :
          mock' = IF ~mock.isOpen THEN DriverTaken
                  ELSE IF how = "fault" THEN [DriverTaken EXCEPT !.fault = TRUE]
                  ELSE [DriverTaken EXCEPT
                           !.calls = Append(@, Callback("onWebSocketMessage",
                                                        NoStatus))]

NextMock ==
    \/ mockConnect
    \/ mockClose
    \/ mockSend
    \/ mockSimulateConnected
    \/ mockSimulateReceived
    \/ mockSimulateClosed
    \/ driverDelayPassed
    \/ Driver_connect
    \/ Driver_simulateConnected
    \/ Driver_close
    \/ Driver_simulateClosed
    \/ Driver_send
    \/ Driver_simulateReceived

(* -------------------------------- Init ---------------------------------- *)

\* Connection::Connection -> start(): _state = kConnecting, the BLIPIO is
\* created and the WebSocket starts connecting.
InitConnection ==
    /\ state = "Connecting"
    /\ closeStatus = NoStatus
    /\ wsState = "connecting"
    /\ wsClosing = FALSE
    /\ webSocket = TRUE
    /\ connection = TRUE
    /\ outbox = <<>>
    /\ icebox = <<>>
    /\ sentBytes = 0
    /\ pendingRequests = EmptyMap
    /\ pendingResponses = EmptyMap
    /\ lastMessageNo = 0
    /\ numRequestsReceived = 0
    /\ requestHandlers = EmptyMap
    /\ msgs = <<>>
    /\ mailbox = <<>>
    /\ wire = <<>>
    /\ calls = <<>>
    /\ rx = <<>>
    /\ accepted = <<>>
    /\ last = NoLast
    /\ nsteps = 0
    /\ assertFailed = FALSE
    /\ requeued = <<>>
    /\ fault = FALSE
    /\ nIn = 0
    /\ nWriteable = 0
    /\ nClose = 0
    /\ nSetHandler = 0
    /\ _items = {}
    /\ _scheduled = FALSE
    /\ processorCalls = 0
    /\ processing = FALSE
    /\ nPushed = 0
    /\ nPopped = 0
    /\ pops = <<>>
    /\ enqueued = 0

\* no frame has been written to _frameBuf
\* no builder and no mock transport is in use
InitBuilder == builder = NewBuilder /\ built = NoBuilt /\ mock = NewDriver

InitAny == InitConnection /\ frame = NoBuffer /\ InitBuilder

(* ------------------- entry points (any calling thread) ------------------ *)

\* E.maxMailbox bounds the events other threads have waiting in the mailbox
CanEnqueue ==
    /\ ~fault
    /\ Len(mailbox) < E.maxMailbox
    /\ UNCHANGED <<env, rx, accepted, fault>>
    /\ UNCHANGED <<batcherVars, frame, builder, built, mock>>

\* Connection::sendRequest -> send -> BLIPIO::queueMessage
sendRequest ==
    /\ CanEnqueue
    /\ Len(msgs) < E.maxOut
    /\ \E urgent \in E.urgent, noReply \in E.noReply, size \in E.sizes :
          msgs' = Append(msgs, NewMessageOut("REQ", 0, urgent, noReply, size))
    /\ mailbox' = Append(mailbox,
                         [Event("queueMessage") EXCEPT !.m = Len(msgs) + 1])
    /\ UNCHANGED <<state, closeStatus, wsState, wsClosing, bioVarsNoMsgs,
                   wire, calls, last, nsteps, assertFailed, requeued, nIn, nWriteable,
                   nClose, nSetHandler>>

\* Connection::setRequestHandler -> BLIPIO::setRequestHandler
setRequestHandler ==
    /\ CanEnqueue
    /\ nSetHandler < E.maxSetHandler
    /\ nSetHandler' = nSetHandler + 1
    /\ \E profile \in Profiles, handler \in E.handlers \cup {""} :
          mailbox' = Append(mailbox,
                            [Event("setRequestHandler") EXCEPT
                                !.profile = profile, !.handler = handler])
    /\ UNCHANGED <<state, closeStatus, wsState, wsClosing, bioVarsNoMsgs, msgs,
                   wire, calls, last, nsteps, assertFailed, requeued, nIn, nWriteable,
                   nClose>>

\* Connection::close -> BLIPIO::close
close ==
    /\ CanEnqueue
    /\ nClose < E.maxClose
    /\ nClose' = nClose + 1
    /\ state' = "Closing"
    /\ mailbox' = Append(mailbox, Event("close"))
    /\ UNCHANGED <<closeStatus, wsState, wsClosing, bioVarsNoMsgs, msgs, wire,
                   calls, last, nsteps, assertFailed, requeued, nIn, nWriteable,
                   nSetHandler>>

\* mutant: connected() does not tell the delegate
connected_silent ==
    /\ state' = "Connected"
    /\ calls' = calls

\* Connection::connected
connected ==
    /\ state' = "Connected"
    /\ calls' = Append(calls, Call("onConnect", 0))

\* The transport opens: BLIPIO::onWebSocketConnect
onWebSocketConnect ==
    /\ CanEnqueue
    /\ wsState = "connecting"
    /\ wsState' = "open"
    /\ connected
    /\ mailbox' = Append(mailbox, Event("onWebSocketWriteable"))
    /\ UNCHANGED <<closeStatus, wsClosing, bioVarsNoMsgs, msgs, wire, last,
                   nsteps, assertFailed, requeued, nIn, nWriteable, nClose, nSetHandler>>

\* The transport has room: BLIPIO::onWebSocketWriteable
onWebSocketWriteable ==
    /\ CanEnqueue
    /\ wsState = "open"
    /\ nWriteable < E.maxWriteable
    /\ nWriteable' = nWriteable + 1
    /\ mailbox' = Append(mailbox, Event("onWebSocketWriteable"))
    /\ UNCHANGED <<state, closeStatus, wsState, wsClosing, bioVarsNoMsgs, msgs,
                   wire, calls, last, nsteps, assertFailed, requeued, nIn, nClose,
                   nSetHandler>>

\* The transport received a frame: BLIPIO::onWebSocketMessage
onWebSocketMessage ==
    /\ CanEnqueue
    /\ wsState = "open"
    /\ nIn < E.maxIn
    /\ nIn' = nIn + 1
    /\ mailbox' = Append(mailbox, Event("onWebSocketMessage"))
    /\ UNCHANGED <<state, closeStatus, wsState, wsClosing, bioVarsNoMsgs, msgs,
                   wire, calls, last, nsteps, assertFailed, requeued, nWriteable, nClose,
                   nSetHandler>>

\* The transport closed (on request, by the peer, or on an error):
\* BLIPIO::onWebSocketClose.  It makes no callback afterwards.
onWebSocketClose ==
    /\ CanEnqueue
    /\ wsState \in {"connecting", "open"}
    /\ wsState' = "closed"
    /\ mailbox' = Append(mailbox, Event("onWebSocketClose"))
    /\ UNCHANGED <<state, closeStatus, wsClosing, bioVarsNoMsgs, msgs, wire,
                   calls, last, nsteps, assertFailed, requeued, nIn, nWriteable, nClose,
                   nSetHandler>>

\* the environments in which the transport delivers frames after its close
LateEnvs == {"late"}

\* A transport that calls BLIPIO::onWebSocketMessage after onWebSocketClose,
onWebSocketMessageLate ==
    /\ CanEnqueue
    /\ env \in LateEnvs
    /\ wsState = "closed"
    /\ nIn < E.maxIn
    /\ nIn' = nIn + 1
    /\ mailbox' = Append(mailbox, Event("onWebSocketMessage"))
    /\ UNCHANGED <<state, closeStatus, wsState, wsClosing, bioVarsNoMsgs, msgs,
                   wire, calls, last, nsteps, assertFailed, requeued, nWriteable, nClose,
                   nSetHandler>>

\* and BLIPIO::onWebSocketWriteable
onWebSocketWriteableLate ==
    /\ CanEnqueue
    /\ env \in LateEnvs
    /\ wsState = "closed"
    /\ nWriteable < E.maxWriteable
    /\ nWriteable' = nWriteable + 1
    /\ mailbox' = Append(mailbox, Event("onWebSocketWriteable"))
    /\ UNCHANGED <<state, closeStatus, wsState, wsClosing, bioVarsNoMsgs, msgs,
                   wire, calls, last, nsteps, assertFailed, requeued, nIn, nClose,
                   nSetHandler>>

\* the environments in which the transport reports its close twice
TwiceClosedEnvs == {"twice"}

\* A transport that calls BLIPIO::onWebSocketClose a second time
onWebSocketCloseAgain ==
    /\ CanEnqueue
    /\ env \in TwiceClosedEnvs
    /\ wsState = "closed"
    /\ wsState' = "closed twice"
    /\ mailbox' = Append(mailbox, Event("onWebSocketClose"))
    /\ UNCHANGED <<state, closeStatus, wsClosing, bioVarsNoMsgs, msgs, wire,
                   calls, last, nsteps, assertFailed, requeued, nIn, nWriteable, nClose,
                   nSetHandler>>

(* ------------------- the actor: one handler per event ------------------- *)

Next1(ev) == ~fault /\ mailbox # <<>> /\ Head(mailbox).op = ev

\* The actor took the event at the head of its mailbox; `posted` are the
\* events the handler itself enqueued.
\* the actor handles the event `ev` in this step
Handles(ev) == Next1(ev) /\ nsteps' = nsteps + 1

Handled(posted, l) ==
    /\ UNCHANGED env
    /\ UNCHANGED <<batcherVars, frame, builder, built, mock>>
    /\ mailbox' = Tail(mailbox) \o posted
    /\ nsteps' = nsteps + 1
    /\ last' = l

QueueEvent(id) == [Event("queueMessage") EXCEPT !.m = id]

\* mutant: _queueMessage does not test the socket
socketIsClosed_unchecked == FALSE

\* _queueMessage, line 179: !_webSocket
socketIsClosed == ~webSocket

\* mutant: every queued message gets the next number, numbered or not
_queueMessage_renumbers ==
    /\ Next1("queueMessage")
    /\ LET id == Head(mailbox).m
       IN  /\ Handled(<<>>, [NoLast EXCEPT !.op = "queueMessage", !.m = id])
           /\ IF socketIsClosed
              THEN UNCHANGED <<outbox, icebox, msgs, sentBytes,
                               pendingResponses, wire, assertFailed, requeued,
                               lastMessageNo>>
              ELSE LET fresh == TRUE
                       no == IF fresh THEN lastMessageNo + 1
                             ELSE msgs[id].number
                       s == [OutState EXCEPT !.msgs[id].number = no]
                   IN  /\ lastMessageNo' = IF fresh THEN no ELSE lastMessageNo
                       /\ SetOut(requeue(s, id, TRUE))
    /\ UNCHANGED <<rx, accepted, fault>>
    /\ UNCHANGED <<state, closeStatus, wsState, wsClosing, webSocket,
                   connection, pendingRequests, numRequestsReceived,
                   requestHandlers, calls, nIn, nWriteable, nClose,
                   nSetHandler>>

\* _queueMessage, lines 178-190
_queueMessage ==
    /\ Next1("queueMessage")
    /\ LET id == Head(mailbox).m
       IN  /\ Handled(<<>>, [NoLast EXCEPT !.op = "queueMessage", !.m = id])
           /\ IF socketIsClosed
              THEN UNCHANGED <<outbox, icebox, msgs, sentBytes,
                               pendingResponses, wire, assertFailed, requeued,
                               lastMessageNo>>
              ELSE LET fresh == msgs[id].number = 0
                       no == IF fresh THEN lastMessageNo + 1
                             ELSE msgs[id].number
                       s == [OutState EXCEPT !.msgs[id].number = no]
                   IN  /\ lastMessageNo' = IF fresh THEN no ELSE lastMessageNo
                       /\ SetOut(requeue(s, id, TRUE))
    /\ UNCHANGED <<rx, accepted, fault>>
    /\ UNCHANGED <<state, closeStatus, wsState, wsClosing, webSocket,
                   connection, pendingRequests, numRequestsReceived,
                   requestHandlers, calls, nIn, nWriteable, nClose,
                   nSetHandler>>

\* _setRequestHandler, lines 421-426
_setRequestHandler ==
    /\ Next1("setRequestHandler")
    /\ LET ev == Head(mailbox)
       IN  /\ Handled(<<>>, [NoLast EXCEPT !.op = "setRequestHandler"])
           /\ requestHandlers' =
                 IF ev.handler # ""
                 THEN MapEmplace(requestHandlers, ev.profile, ev.handler)
                 ELSE MapErase(requestHandlers, ev.profile)
    /\ UNCHANGED <<rx, accepted, fault>>
    /\ UNCHANGED <<state, closeStatus, wsState, wsClosing, webSocket,
                   connection, outbox, icebox, sentBytes, pendingRequests,
                   pendingResponses, lastMessageNo, numRequestsReceived, msgs,
                   wire, calls, assertFailed, requeued, nIn, nWriteable, nClose,
                   nSetHandler>>

\* _close, lines 152-155
_close ==
    /\ Next1("close")
    /\ Handled(<<>>, [NoLast EXCEPT !.op = "close"])
    /\ wsClosing' = (wsClosing \/ webSocket)
    /\ UNCHANGED <<rx, accepted, fault>>
    /\ UNCHANGED <<state, closeStatus, wsState, bioVarsNoMsgs, msgs, wire,
                   calls, assertFailed, requeued, nIn, nWriteable, nClose, nSetHandler>>

\* CloseStatus::isNormal, WebSocketInterface.hh lines 86-88
isNormal(status) ==
    status.reason = kWebSocketClose
    /\ (status.code = kCodeNormal \/ status.code = kCodeGoingAway)

\* Connection::closed, lines 526-538: the new _state
closedState(status) ==
    IF status.reason = kWebSocketClose
       /\ (status.code = kCodeNormal \/ status.code = kCodeGoingAway)
    THEN "Closed"
    ELSE "Disconnected"

\* Connection::closed, line 527: the table the log line indexes with
\* status.reason
kReasonNames == <<"WebSocket status", "errno", "DNS error">>

\* Connection::closed, line 529: kReasonNames[status.reason] is inside the
\* table; outside it the read is undefined
reasonNameInBounds(status) == status.reason < Len(kReasonNames)

\* what the read of kReasonNames[status.reason] can do: return a name, or,
\* outside the table, return anything or end the process
closedOutcomes(status) ==
    IF reasonNameInBounds(status) THEN {"ok"} ELSE {"ok", "fault"}

\* mutant: _closed does not test _connection
_closed_untested ==
    /\ Next1("onWebSocketClose")
    /\ \E status \in E.statuses :
       \E how \in closedOutcomes(status) :
          /\ Handled(<<>>, [NoLast EXCEPT !.op = "onWebSocketClose"])
          /\ webSocket' = FALSE
          /\ fault' = (how = "fault")
          /\ IF how = "ok"
             THEN /\ state' = closedState(status)
                  /\ closeStatus' = status
                  /\ calls' = Append(calls, [Call("onClose", status.code)
                                               EXCEPT !.arg = status.reason])
                  /\ connection' = FALSE
                  /\ outbox' = <<>>
                  /\ icebox' = <<>>
                  /\ pendingRequests' = EmptyMap
                  /\ pendingResponses' = EmptyMap
                  /\ requestHandlers' = EmptyMap
             ELSE UNCHANGED <<state, closeStatus, calls, connection, outbox,
                              icebox, pendingRequests, pendingResponses,
                              requestHandlers>>
    /\ UNCHANGED <<rx, accepted>>
    /\ UNCHANGED <<wsState, wsClosing, sentBytes, lastMessageNo,
                   numRequestsReceived, msgs, wire, assertFailed, requeued, nIn,
                   nWriteable, nClose, nSetHandler>>

\* _closed, lines 157-170
_closed ==
    /\ Next1("onWebSocketClose")
    /\ \E status \in E.statuses :
       \E how \in IF connection THEN closedOutcomes(status) ELSE {"ok"} :
          /\ Handled(<<>>, [NoLast EXCEPT !.op = "onWebSocketClose"])
          /\ webSocket' = FALSE
          /\ fault' = (how = "fault")
          /\ IF connection /\ how = "ok"
             THEN /\ state' = closedState(status)
                  /\ closeStatus' = status
                  /\ calls' = Append(calls, [Call("onClose", status.code)
                                               EXCEPT !.arg = status.reason])
                  /\ connection' = FALSE
                  /\ outbox' = <<>>
                  /\ icebox' = <<>>
                  /\ pendingRequests' = EmptyMap
                  /\ pendingResponses' = EmptyMap
                  /\ requestHandlers' = EmptyMap
             ELSE UNCHANGED <<state, closeStatus, calls, connection, outbox,
                              icebox, pendingRequests, pendingResponses,
                              requestHandlers>>
    /\ UNCHANGED <<rx, accepted>>
    /\ UNCHANGED <<wsState, wsClosing, sentBytes, lastMessageNo,
                   numRequestsReceived, msgs, wire, assertFailed, requeued, nIn,
                   nWriteable, nClose, nSetHandler>>

\* _onWebSocketWriteable, lines 239-243
_onWebSocketWriteable ==
    /\ Next1("onWebSocketWriteable")
    /\ Handled(<<>>, [NoLast EXCEPT !.op = "onWebSocketWriteable"])
    /\ SetOut(writeToWebSocket([OutState EXCEPT !.sentBytes = 0]))
    /\ UNCHANGED <<rx, accepted, fault>>
    /\ UNCHANGED <<state, closeStatus, wsState, wsClosing, webSocket,
                   connection, pendingRequests, lastMessageNo,
                   numRequestsReceived, requestHandlers, calls, nIn,
                   nWriteable, nClose, nSetHandler>>

\* The ACK a MessageIn sends for itself (MessageIn::receivedFrame)
AckFor(msg) ==
    NewMessageOut(IF msg.type = "REQ" THEN "ACKREQ" ELSE "AKRES",
                  msg.number, TRUE, TRUE, 3)

\* MessageIn::respond: the reply the application sends to a request
respond(msg) == NewMessageOut("RES", msg.number, FALSE, TRUE, 100)

\* MessageIn::respondWithError: an Error reply with the domain and code
respondWithError(msg, domain, code) ==
    [NewMessageOut("ERR", msg.number, FALSE, TRUE, 100) EXCEPT
        !.error = [domain |-> domain, code |-> code]]

\* handleRequest, line 443: the error its catch clause answers with
kErrorDomain == "BLIP"
kErrorCode == 501

\* mutant: handleRequest has no catch clause
handleRequestCatches_nothing == FALSE

\* handleRequest, lines 430 and 441: the calls are made inside try, with a
\* catch (...) clause
handleRequestCatches == TRUE

\* The reply the application (or handleRequest's catch) sends to a request
ReplyFor(msg, outcome) ==
    IF outcome = "throw"
    THEN respondWithError(msg, kErrorDomain, kErrorCode)
    ELSE respond(msg)

\* A handled frame as the history keeps it: sent is the number of frames
\* BLIPIO had sent when the frame was handled, created tells that
\* pendingRequest made a new MessageIn for it.
RxEntry(f) ==
    [binary |-> f.binary, hdr |-> f.hdr, type |-> f.type, msgNo |-> f.msgNo,
     more |-> f.more, profile |-> f.profile, ack |-> f.ack, bytes |-> f.bytes,
     sent |-> Len(wire),
     created |-> f.type = "REQ" /\ pendingRequest(f).created]

\* _onWebSocketMessage, lines 313-354, for the frame f; outcome is what the
\* request callback does, if one is made.  The handler tests neither
\* _connection nor _webSocket.  With _connection null (after _closed) the
\* calls through it (line 350, handleRequest line 440, and those MessageIn
\* makes to send an ACK or a reply) are undefined: how tells whether such a
\* call goes through ("ok") or ends the process ("fault").
onFrame(f, outcome, how) ==
    LET isMsg == f.binary /\ f.hdr /\ f.type \in {"REQ", "RES", "ERR"}
        isAckFrame == f.binary /\ f.hdr /\ f.type \in {"ACKREQ", "AKRES"}
        req == pendingRequest(f)
        res == pendingResponse(pendingResponses, f)
        msg == IF ~isMsg THEN {}
               ELSE IF f.type = "REQ" THEN req.msg ELSE res.msg
        s == IF isAckFrame
             THEN receivedAck(OutState, f.msgNo, f.type = "AKRES", f.bytes)
             ELSE OutState
        complete == msg # {} /\ receivedFrame(f)
        theMsg == CHOOSE x \in msg : TRUE
        acks == IF msg # {} /\ f.ack THEN <<AckFor(theMsg)>> ELSE <<>>
        escapes == complete /\ f.type = "REQ" /\ outcome = "throw"
                   /\ ~handleRequestCatches
        replies == IF complete /\ f.type = "REQ" /\ outcome # "return"
                      /\ ~escapes
                   THEN <<ReplyFor(theMsg, outcome)>> ELSE <<>>
        created == acks \o replies
        usesConnection ==
            \/ created # <<>>
            \/ complete /\ f.type # "REQ"
            \/ /\ complete /\ f.type = "REQ"
               /\ \E i \in 1..Len(handleRequest(theMsg)) :
                     handleRequest(theMsg)[i].cb = "onRequestReceived"
    IN  /\ how = "fault" => (~connection /\ usesConnection)
        /\ Len(s.msgs) + Len(created) <= E.maxOut
        /\ Handled([i \in 1..Len(created) |-> QueueEvent(Len(s.msgs) + i)],
                   [NoLast EXCEPT !.op = "onWebSocketMessage",
                                  !.outcome = outcome])
        /\ fault' = (escapes \/ how = "fault")
        /\ rx' = IF E.keepRx THEN Append(rx, RxEntry(f)) ELSE rx
        /\ accepted' = IF isMsg /\ f.type = "REQ" /\ req.created
                       THEN Append(accepted, f.msgNo) ELSE accepted
        /\ SetOut([s EXCEPT
                     !.msgs = @ \o created,
                     !.pendingResponses =
                         IF isMsg /\ f.type # "REQ" THEN res.pending ELSE @])
        /\ pendingRequests' = IF isMsg /\ f.type = "REQ" THEN req.pending
                              ELSE pendingRequests
        /\ numRequestsReceived' = IF isMsg /\ f.type = "REQ" THEN req.num
                                  ELSE numRequestsReceived
        /\ calls' = IF ~complete \/ how = "fault" THEN calls
                    ELSE IF f.type = "REQ"
                    THEN calls \o handleRequest(theMsg)
                    ELSE Append(calls, Call("onResponseReceived",
                                            theMsg.number))

\* Parts of a frame the handler never reads are drawn at one value only: the
\* Profile property unless the frame starts a request, the payload's effect
\* on the ACK interval unless the frame belongs to a message, the byte count
\* of an ACK unless it is for a queued message, and what the callback does
\* unless a request callback is made.
Read(f, outcome) ==
    LET starts == f.type = "REQ" /\ f.msgNo \notin DOMAIN pendingRequests
                  /\ f.msgNo = numRequestsReceived + 1
        belongs == \/ starts
                   \/ f.type = "REQ" /\ f.msgNo \in DOMAIN pendingRequests
                   \/ f.type \in {"RES", "ERR"}
                      /\ f.msgNo \in DOMAIN pendingResponses
        acked == \E q \in {outbox, icebox} :
                     findMessage(q, msgs, f.msgNo, f.type = "AKRES") # 0
    IN  /\ f.profile # "" => starts
        /\ f.bytes # 0 => acked
        /\ f.ack => belongs
        /\ outcome # "return" => (f.type = "REQ" /\ belongs /\ ~f.more)

_onWebSocketMessage ==
    /\ Next1("onWebSocketMessage")
    /\ \E f \in E.frames, outcome \in E.outcomes, how \in {"ok", "fault"} :
          /\ Read(f, outcome)
          /\ onFrame(f, outcome, how)
    /\ UNCHANGED <<state, closeStatus, wsState, wsClosing, webSocket,
                   connection, lastMessageNo, requestHandlers, nIn,
                   nWriteable, nClose, nSetHandler>>

(* ------------------------------ frame buffer ---------------------------- *)

\* the Outbox of writeToWebSocket once the message of the frame is popped
FrameQueue(b) ==
    [msgs |-> <<NewMessageOut("REQ", 1, b.urgent, TRUE, b.left),
                NewMessageOut("REQ", 2, b.behind = "urgent", TRUE, 1)>>,
     outbox |-> IF b.behind = "nothing" THEN <<>> ELSE <<2>>]

\* writeToWebSocket, lines 258-283: the frame is cut and copied to _frameBuf
\* and passed to send
sendFrame ==
    /\ ~frame.sent
    /\ LET s == FrameQueue(frame)
           maxSize == frameMaxSize(s, 1)
       IN  frame' = [frame EXCEPT
                        !.sent = TRUE,
                        !.maxSize = maxSize,
                        !.body = nextFrameSize(s.msgs[1], payloadMax(maxSize)),
                        !.header = PutUVarInt(frame.number)
                                      \o PutUVarInt(Limbs(frame.flags, 0, 0, 0))]
    /\ UNCHANGED <<blipVars, batcherVars, builder, built, mock>>

NextFrame == sendFrame

(* -------------------------------- Batcher ------------------------------- *)

BatchItems == 4      \* items pushed
BatchPops == 2       \* pop calls made by threads other than the processor

\* mutant: every push enqueues a processor call
pushSchedules_always(scheduled) == TRUE

\* Batcher::push, lines 56-59: a processor call is enqueued
pushSchedules(scheduled) == ~scheduled

\* Batcher::push, lines 48-60, under the mutex
push(item) ==
    /\ _items' = {Append(IF _items = {} THEN <<>>
                         ELSE CHOOSE v \in _items : TRUE, item)}
    /\ _scheduled' = TRUE
    /\ processorCalls' = IF pushSchedules(_scheduled)
                         THEN processorCalls + 1 ELSE processorCalls
    /\ enqueued' = IF pushSchedules(_scheduled)
                   THEN enqueued + 1 ELSE enqueued

\* mutant: pop returns the items and leaves them in the queue
popLeaves_items(items) == items

\* Batcher::pop, line 69: what move(_items) leaves in _items
popLeaves(items) == {}

\* Batcher::pop, lines 65-70, under the mutex
pop ==
    /\ _scheduled' = FALSE
    /\ pops' = Append(pops, _items)
    /\ _items' = popLeaves(_items)
    /\ enqueued' = 0

\* a thread pushes the next item
batcherPush ==
    /\ nPushed < BatchItems
    /\ nPushed' = nPushed + 1
    /\ push(nPushed + 1)
    /\ UNCHANGED <<processing, nPopped, pops>>
    /\ UNCHANGED <<blipVars, frame, builder, built, mock>>

\* a thread other than the processor calls pop
batcherPop ==
    /\ nPopped < BatchPops
    /\ nPopped' = nPopped + 1
    /\ pop
    /\ UNCHANGED <<processorCalls, processing, nPushed>>
    /\ UNCHANGED <<blipVars, frame, builder, built, mock>>

\* the actor takes a processor call from its queue
processorStart ==
    /\ processorCalls > 0
    /\ ~processing
    /\ processorCalls' = processorCalls - 1
    /\ processing' = TRUE
    /\ UNCHANGED <<_items, _scheduled, nPushed, nPopped, pops, enqueued>>
    /\ UNCHANGED <<blipVars, frame, builder, built, mock>>

\* the processor calls pop
processorPop ==
    /\ processing
    /\ processing' = FALSE
    /\ pop
    /\ UNCHANGED <<processorCalls, nPushed, nPopped>>
    /\ UNCHANGED <<blipVars, frame, builder, built, mock>>

NextBatcher ==
    \/ batcherPush
    \/ batcherPop
    \/ processorStart
    \/ processorPop

(* ----------------------------- specification ---------------------------- *)

Next ==
    \/ sendRequest
    \/ setRequestHandler
    \/ close
    \/ onWebSocketConnect
    \/ onWebSocketWriteable
    \/ onWebSocketMessage
    \/ onWebSocketClose
    \/ _queueMessage
    \/ _setRequestHandler
    \/ _close
    \/ _closed
    \/ _onWebSocketWriteable
    \/ _onWebSocketMessage

Init == env = "all" /\ InitAny

Spec == Init /\ [][Next]_vars

NextOut ==
    \/ sendRequest
    \/ close
    \/ onWebSocketConnect
    \/ onWebSocketWriteable
    \/ onWebSocketMessage
    \/ onWebSocketClose
    \/ _queueMessage
    \/ _close
    \/ _closed
    \/ _onWebSocketWriteable
    \/ _onWebSocketMessage

InitOut == env = "out" /\ InitAny

SpecOut == InitOut /\ [][NextOut]_vars


NextIn ==
    \/ setRequestHandler
    \/ close
    \/ onWebSocketConnect
    \/ onWebSocketWriteable
    \/ onWebSocketMessage
    \/ onWebSocketClose
    \/ _queueMessage
    \/ _setRequestHandler
    \/ _close
    \/ _closed
    \/ _onWebSocketWriteable
    \/ _onWebSocketMessage

InitIn == env = "in" /\ InitAny

InitRR == env = "rr" /\ InitAny

InitConn == env = "conn" /\ InitAny

InitDisp == env = "disp" /\ InitAny

InitNum == env = "num" /\ InitAny

InitProt == env = "prot" /\ InitAny

NextSend ==
    \/ sendRequest
    \/ close
    \/ onWebSocketConnect
    \/ onWebSocketWriteable
    \/ onWebSocketClose
    \/ _queueMessage
    \/ _close
    \/ _closed
    \/ _onWebSocketWriteable

InitPrio == env = "prio" /\ InitAny

InitBatcher == env = "batcher" /\ InitAny

InitAfter == env = "after" /\ InitAny

SpecAfter == InitAfter /\ [][NextSend]_vars

InitAck == env = "ack" /\ InitAny

NextTwice ==
    \/ Next
    \/ onWebSocketCloseAgain

InitTwice == env = "twice" /\ InitAny

NextLate ==
    \/ Next
    \/ onWebSocketMessageLate
    \/ onWebSocketWriteableLate

InitLate == env = "late" /\ InitAny

InitMock == env = "mock" /\ InitAny

SpecMock == InitMock /\ [][NextMock]_vars

SpecLate == InitLate /\ [][NextLate]_vars

SpecTwice == InitTwice /\ [][NextTwice]_vars

SpecAck == InitAck /\ [][NextOut]_vars

\* no event of the kind waits in the mailbox
NonePending(op) == \A i \in 1..Len(mailbox) : mailbox[i].op # op

\* the transport reports room once the write loop has used up its budget
writeableAgain ==
    /\ sentBytes >= kMaxSendSize
    /\ NonePending("onWebSocketWriteable")
    /\ onWebSocketWriteable

\* the peer sends an ACK while a message waits for one
ackArrives ==
    /\ icebox # <<>>
    /\ NonePending("onWebSocketMessage")
    /\ onWebSocketMessage

\* the ACK received is one that a frozen message waits for
requiredAck ==
    /\ _onWebSocketMessage
    /\ icebox' # icebox

NextLive ==
    \/ sendRequest
    \/ onWebSocketConnect
    \/ writeableAgain
    \/ ackArrives
    \/ _queueMessage
    \/ _onWebSocketWriteable
    \/ requiredAck

InitLive == env = "live" /\ InitAny

\* the actor handles the event at the head of its mailbox (a handler is
\* enabled whenever its event is at the head, and every step that counts in
\* nsteps is a handler's); the transport connects and keeps reporting room;
\* the peer keeps sending the ACKs waited for
Fairness ==
    /\ WF_nsteps(Handles("queueMessage"))
    /\ WF_nsteps(Handles("onWebSocketWriteable"))
    /\ WF_nsteps(Handles("onWebSocketMessage"))
    /\ WF_vars(onWebSocketConnect)
    /\ WF_vars(writeableAgain)
    /\ WF_vars(ackArrives)

SpecLive == InitLive /\ [][NextLive]_vars /\ Fairness

InitFrame ==
    /\ env = "frm"
    /\ InitConnection
    /\ InitBuilder
    /\ \E n \in FrameNumbers, f \in FrameFlagBytes, l \in FrameLefts,
          u \in BOOLEAN, b \in {"nothing", "urgent", "regular"} :
          frame = [NoBuffer EXCEPT !.number = n, !.flags = f, !.left = l,
                                   !.urgent = u, !.behind = b]

SpecFrame == InitFrame /\ [][NextFrame]_vars

InitQueue == env = "queue" /\ InitAny

SpecQueue == InitQueue /\ [][NextSend]_vars

\* a builder constructed with or without a profile, beside a connection
\* that is left alone
InitMessageBuilder ==
    /\ env = "builder"
    /\ InitConnection
    /\ frame = NoBuffer
    /\ mock = NewDriver
    /\ \E profile \in BuilderProfiles :
          /\ builder = MessageBuilder(profile)
          /\ built = [NoBuilt EXCEPT
                         !.props = IF profile = <<>> THEN <<>>
                                   ELSE <<<<kSpecialProperties[1], profile>>>>,
                         !.allProps = IF profile = <<>> THEN <<>>
                                      ELSE <<<<kSpecialProperties[1], profile>>>>]

SpecBuilder == InitMessageBuilder /\ [][NextBuilder]_vars

SpecBatcher == InitBatcher /\ [][NextBatcher]_vars

SpecPrio == InitPrio /\ [][NextSend]_vars

SpecProt == InitProt /\ [][NextOut]_vars

SpecNum == InitNum /\ [][NextOut]_vars

SpecDisp == InitDisp /\ [][NextIn]_vars

SpecConn == InitConn /\ [][Next]_vars

SpecRR == InitRR /\ [][NextOut]_vars

SpecIn == InitIn /\ [][NextIn]_vars

(* ------------------------------ properties ------------------------------ *)

NoDuplicates(q) == \A i, j \in 1..Len(q) : q[i] = q[j] => i = j

\* C1: in every reachable state no MessageOut is in both the Outbox and the
\* Icebox, none occurs twice in either queue, and no assert of requeue,
\* freezeMessage or thawMessage has failed.
C1_QueuesDisjoint ==
    /\ Range(outbox) \cap Range(icebox) = {}
    /\ NoDuplicates(outbox)
    /\ NoDuplicates(icebox)
    /\ ~assertFailed

\* C1 witness: a message thawed by an ACK is back in the Outbox while
\* another message is frozen.
C1_Witness ==
    /\ icebox # <<>>
    /\ \E i \in 1..Len(outbox) :
          /\ msgs[outbox[i]].bytesSent > 0
          /\ msgs[outbox[i]].unackedBytes < msgs[outbox[i]].bytesSent

\* the queueMessage event of message id has been handled
Queued(id) == \A i \in 1..Len(mailbox) : mailbox[i].m # id

FramesOf(id) == {i \in 1..Len(wire) : wire[i].id = id}

FrameHandled == Len(rx') = Len(rx) + 1
TheFrame == rx'[Len(rx')]

IsReq(e, n) == e.type = "REQ" /\ e.msgNo = n

\* C2: the numbers of the requests pendingRequest accepts are 1,2,3,... in
\* this order, _numRequestsReceived is how many were accepted, and a request
\* is accepted only for a frame whose number is _numRequestsReceived + 1 and
\* is not pending.
C2_RequestNumbersSequential ==
    /\ [](/\ accepted = [i \in 1..Len(accepted) |-> i]
          /\ numRequestsReceived = Len(accepted))
    /\ [][accepted' # accepted =>
             /\ FrameHandled
             /\ TheFrame.type = "REQ"
             /\ TheFrame.msgNo = numRequestsReceived + 1
             /\ TheFrame.msgNo \notin DOMAIN pendingRequests
             /\ accepted' = Append(accepted, TheFrame.msgNo)]_vars

\* C2 witness: requests 1 and 2 were accepted although a frame of request 3
\* came in between.
C2_Witness ==
    /\ accepted = <<1, 2>>
    /\ Len(rx) = 3
    /\ IsReq(rx[2], 3)

\* the frames so far contain request 1 complete in one frame, then a frame
\* of request 3
OneThenThree ==
    /\ Len(rx) >= 2
    /\ IsReq(rx[1], 1) /\ ~rx[1].more
    /\ IsReq(rx[2], 3)

\* C3: a request frame whose number is neither pending nor the next one
\* changes no counter, map or queue, creates no message, sends nothing and
\* makes no callback; and after request 1 in one frame and then a frame of
\* request 3, the next frame of request 2 is accepted and request 3 is
\* dispatched only if a frame of it is received after one of request 2.
C3_BadNumberDropped ==
    /\ [][(/\ FrameHandled
           /\ TheFrame.type = "REQ"
           /\ TheFrame.msgNo \notin DOMAIN pendingRequests
           /\ TheFrame.msgNo # numRequestsReceived + 1) =>
              UNCHANGED <<numRequestsReceived, pendingRequests,
                          pendingResponses, outbox, icebox, calls, msgs,
                          wire, accepted>>]_vars
    /\ [](OneThenThree =>
             /\ \A k \in 3..Len(rx) :
                   (IsReq(rx[k], 2)
                      /\ \A j \in 3..(k - 1) : ~IsReq(rx[j], 2))
                   => rx[k].created
             /\ (\E c \in Range(calls) : c.no = 3) =>
                   \E i, j \in 3..Len(rx) :
                       i < j /\ IsReq(rx[i], 2) /\ IsReq(rx[j], 3))

\* C3 witness: request 1, a frame of request 3, then request 2; requests 1
\* and 2 were dispatched and request 3 was not.
C3_Witness ==
    /\ OneThenThree
    /\ Len(rx) = 3
    /\ IsReq(rx[3], 2) /\ ~rx[3].more
    /\ \E c \in Range(calls) : c.no = 1
    /\ \E c \in Range(calls) : c.no = 2
    /\ \A c \in Range(calls) : c.no # 3
    /\ numRequestsReceived = 2

\* the callbacks that dispatched request n
Dispatches(n) ==
    {i \in 1..Len(calls) :
        calls[i].no = n /\ calls[i].cb \in {"handler", "onRequestReceived"}}

\* request n was accepted and a frame of it without MoreComing was handled
\* since
Completed(n) ==
    \E j, k \in 1..Len(rx) :
        /\ j <= k
        /\ rx[j].created /\ rx[j].msgNo = n
        /\ IsReq(rx[k], n) /\ ~rx[k].more

\* C4: a request is dispatched once, to the profile's handler or to
\* onRequestReceived, if it was accepted and its final frame was handled, and
\* not at all otherwise, whatever frames with its number follow.
C4_DispatchedOnce ==
    \A n \in 1..MaxNo :
        Cardinality(Dispatches(n)) = IF Completed(n) THEN 1 ELSE 0

\* C4 witness: a request went to the registered handler, and a later frame
\* carried its number again.
C4_Witness ==
    \E n \in 1..MaxNo, k \in 1..Len(rx) :
        /\ Completed(n)
        /\ \E i \in Dispatches(n) : calls[i].cb = "handler"
        /\ k > 1
        /\ IsReq(rx[k], n)
        /\ \E j \in 1..(k - 1) : IsReq(rx[j], n) /\ ~rx[j].more

\* request n was accepted with MoreComing and no frame of it without
\* MoreComing was handled since
PartlyReceived(n) ==
    \E j \in 1..Len(rx) :
        /\ rx[j].created /\ rx[j].msgNo = n /\ rx[j].more
        /\ \A k \in (j + 1)..Len(rx) : ~(IsReq(rx[k], n) /\ ~rx[k].more)

\* C7: until _closed runs, _pendingRequests holds n exactly if request n was
\* accepted with MoreComing and no final frame of it was handled since; its
\* keys are at most _numRequestsReceived; and a request accepted from a
\* frame without MoreComing is not inserted.
C7_PendingRequestsExact ==
    /\ [](webSocket =>
             /\ \A n \in 1..MaxNo :
                   n \in DOMAIN pendingRequests <=> PartlyReceived(n)
             /\ \A n \in DOMAIN pendingRequests : n <= numRequestsReceived)
    /\ [][(FrameHandled /\ TheFrame.created /\ ~TheFrame.more) =>
             /\ TheFrame.msgNo \notin DOMAIN pendingRequests'
             /\ pendingRequests' = pendingRequests]_vars

\* C7 witness: request 1 was received in two frames and is no longer pending,
\* request 2 is partly received.
C7_Witness ==
    /\ webSocket
    /\ DOMAIN pendingRequests = {2}
    /\ Len(rx) = 3
    /\ rx[1].created /\ rx[1].more
    /\ IsReq(rx[2], 1) /\ ~rx[2].more

\* the frames on the wire that end request n sent without NoReply
ReqSentAt(n) ==
    {i \in 1..Len(wire) :
        /\ wire[i].type = "REQ" /\ wire[i].number = n
        /\ ~wire[i].more /\ ~wire[i].noReply}

IsFinalRes(e, n) ==
    e.type \in {"RES", "ERR"} /\ e.msgNo = n /\ ~e.more

\* the final response frames for n handled after request n was fully sent
ResponsesTo(n) ==
    {j \in 1..Len(rx) :
        IsFinalRes(rx[j], n) /\ \E i \in ReqSentAt(n) : rx[j].sent >= i}

ResponseCalls(n) ==
    {i \in 1..Len(calls) :
        calls[i].cb = "onResponseReceived" /\ calls[i].no = n}

\* C5: onResponseReceived is called once with number n if request n was
\* fully sent without NoReply and a final Response or Error frame for n was
\* handled after that, and is not called for n otherwise, whatever other
\* Response or Error frames carry the number.
C5_OneResponseCallback ==
    \A n \in 1..MaxNo :
        Cardinality(ResponseCalls(n)) = IF ResponsesTo(n) # {} THEN 1 ELSE 0

\* C5 witness: the response to a request was delivered, and another final
\* frame with its number was handled afterwards.
C5_Witness ==
    \E n \in 1..MaxNo :
        /\ Cardinality(ResponsesTo(n)) = 2
        /\ ResponseCalls(n) # {}

\* C6: until _closed runs, _pendingResponses holds n exactly if request n
\* was fully sent without NoReply and no final Response or Error frame for n
\* was handled since; an entry appears only in a step that sends the last
\* frame of request n, and disappears exactly in the step that handles a
\* Response or Error frame for n without MoreComing.
C6_PendingResponsesExact ==
    /\ [](webSocket =>
             \A n \in 1..MaxNo :
                 n \in DOMAIN pendingResponses <=>
                     (ReqSentAt(n) # {} /\ ResponsesTo(n) = {}))
    /\ [][\A n \in DOMAIN pendingResponses' \ DOMAIN pendingResponses :
             \E i \in (Len(wire) + 1)..Len(wire') :
                 /\ wire'[i].type = "REQ" /\ wire'[i].number = n
                 /\ ~wire'[i].more /\ ~wire'[i].noReply]_vars
    /\ [][webSocket' =>
             \A n \in DOMAIN pendingResponses :
                 n \notin DOMAIN pendingResponses' <=>
                     (FrameHandled /\ IsFinalRes(TheFrame, n))]_vars

\* C6 witness: two requests were sent; the response to one is complete and
\* its entry is gone, the response to the other has begun and its entry is
\* still there.
C6_Witness ==
    /\ webSocket
    /\ \E n, m \in 1..MaxNo :
          /\ n \in DOMAIN pendingResponses
          /\ m \notin DOMAIN pendingResponses
          /\ ResponsesTo(m) # {}
          /\ \E j \in 1..Len(rx) :
                rx[j].type \in {"RES", "ERR"} /\ rx[j].msgNo = n /\ rx[j].more

\* C10: once the connection is Closed or Disconnected its state does not
\* change again.
C10_ClosedIsTerminal ==
    [][(state = "Closed" \/ state = "Disconnected") => state' = state]_vars

\* C11 as claimed: once the state is Closing it is never set to Connected.
C11_ClosingNeverConnected ==
    [][(state = "Closing") => state' # "Connected"]_vars

\* Connection::closed was called in this step
ClosedCalled == Handles("onWebSocketClose") /\ connection

\* C12 as claimed: when Connection::closed(status) has been called the state
\* is Closed if the status is a WebSocket close with code 1000 or 1001, and
\* Disconnected for every other status.
C12_ClosedStateByStatus ==
    [][ClosedCalled =>
          /\ closeStatus' \in CloseStatuses
          /\ state' = IF isNormal(closeStatus') THEN "Closed"
                      ELSE "Disconnected"]_vars

Delivery == {"handler", "onRequestReceived", "onResponseReceived"}

\* C13: a request or response is delivered to the application only after
\* onConnect and never after onClose, and onConnect is not called after
\* onClose.
C13_DelegateOrder ==
    \A j \in 1..Len(calls) :
        /\ calls[j].cb \in Delivery =>
              /\ \E i \in 1..(j - 1) : calls[i].cb = "onConnect"
              /\ \A i \in 1..(j - 1) : calls[i].cb # "onClose"
        /\ calls[j].cb = "onConnect" =>
              \A i \in 1..(j - 1) : calls[i].cb # "onClose"

\* C13 witness: onConnect, a request and a response delivered, then onClose.
C13_Witness ==
    /\ Len(calls) = 4
    /\ calls[1].cb = "onConnect"
    /\ {calls[2].cb, calls[3].cb} \cap {"handler", "onRequestReceived"} # {}
    /\ "onResponseReceived" \in {calls[2].cb, calls[3].cb}
    /\ calls[4].cb = "onClose"

\* C19 as claimed: whatever status the transport reports,
\* Connection::closed completes without fault, stores the status in
\* _closeStatus and passes the same reason and code to onClose.
C19_ClosedCompletes ==
    [][ClosedCalled =>
          /\ ~fault'
          /\ Len(calls') = Len(calls) + 1
          /\ calls'[Len(calls')].cb = "onClose"
          /\ closeStatus' = [reason |-> calls'[Len(calls')].arg,
                             code |-> calls'[Len(calls')].no]]_vars

\* C14 as claimed: once _setRequestHandler(profile, handler) with a handler
\* has run, the profile's handler is that one, also if another was
\* registered before; the registration changes only by _setRequestHandler
\* and _closed; and a completed request goes to the handler registered for
\* its profile, or to onRequestReceived if it has no profile or none is
\* registered.
C14_LatestHandlerDispatched ==
    /\ [][(Handles("setRequestHandler") /\ Head(mailbox).handler # "") =>
             /\ Head(mailbox).profile \in DOMAIN requestHandlers'
             /\ requestHandlers'[Head(mailbox).profile] =
                   Head(mailbox).handler]_vars
    /\ [][requestHandlers' # requestHandlers =>
             Handles("setRequestHandler") \/ Handles("onWebSocketClose")]_vars
    /\ [][(FrameHandled /\ TheFrame.created /\ ~TheFrame.more) =>
             /\ Len(calls') = Len(calls) + 1
             /\ IF TheFrame.profile # ""
                   /\ TheFrame.profile \in DOMAIN requestHandlers
                THEN /\ calls'[Len(calls')].cb = "handler"
                     /\ calls'[Len(calls')].arg =
                           requestHandlers[TheFrame.profile]
                ELSE calls'[Len(calls')].cb = "onRequestReceived"]_vars

\* the requests that have a number
NumberedRequests ==
    {id \in 1..Len(msgs) : msgs[id].type = "REQ" /\ msgs[id].number # 0}

\* C15: the numbered requests carry the numbers 1.._lastMessageNo, each
\* once, in the order they were queued; a message gets a number only when
\* _queueMessage handles it without one, and then the next number; and a
\* number, once a message has one, never changes.
C15_OutgoingNumbers ==
    /\ []({msgs[id].number : id \in NumberedRequests} = 1..lastMessageNo)
    /\ [](\A a, b \in NumberedRequests :
             a < b => msgs[a].number < msgs[b].number)
    /\ [][\A id \in 1..Len(msgs) :
             /\ msgs[id].number # 0 => msgs'[id].number = msgs[id].number
             /\ (msgs[id].number = 0 /\ msgs'[id].number # 0) =>
                   /\ Handles("queueMessage")
                   /\ Head(mailbox).m = id
                   /\ msgs'[id].number = lastMessageNo + 1]_vars
    /\ [][lastMessageNo' # lastMessageNo =>
             /\ lastMessageNo' = lastMessageNo + 1
             /\ Handles("queueMessage")
             /\ msgs[Head(mailbox).m].number = 0]_vars

\* C15 witness: two requests have the numbers 1 and 2, and a reply or ACK
\* that came with the number of the incoming request was queued and sent
\* with it.
C15_Witness ==
    /\ lastMessageNo = 2
    /\ \E id \in 1..Len(msgs) :
          /\ msgs[id].type # "REQ"
          /\ Queued(id)
          /\ \E i \in FramesOf(id) : wire[i].number = msgs[id].number

\* the payload bytes of the frames with the given indices of the wire
RECURSIVE SumBodies(_)
SumBodies(F) ==
    IF F = {} THEN 0
    ELSE LET i == CHOOSE x \in F : TRUE
         IN  wire[i].body + SumBodies(F \ {i})

FinalFramesOf(id) == {i \in FramesOf(id) : ~wire[i].more}

\* C16: the frames of a message are on the wire in increasing _bytesSent
\* order, each ending where the payloads sent so far end; at most one has
\* MoreComing clear, and if one has, it is the last frame of the message,
\* the payloads add up to the body length, and the message is in neither
\* the Outbox nor the Icebox.
C16_FramesOfAMessage ==
    \A id \in 1..Len(msgs) :
        /\ \A i, j \in FramesOf(id) :
              i < j => wire[i].bytesSent < wire[j].bytesSent
        /\ \A i \in FramesOf(id) :
              wire[i].bytesSent = SumBodies({j \in FramesOf(id) : j <= i})
        /\ Cardinality(FinalFramesOf(id)) <= 1
        /\ \A i \in FinalFramesOf(id) :
              /\ \A j \in FramesOf(id) : j <= i
              /\ SumBodies(FramesOf(id)) = msgs[id].size
              /\ ~contains(outbox, id)
              /\ ~contains(icebox, id)

\* C16 witness: a message of several frames that was frozen and thawed has
\* been sent to its last frame, after a frame of another message.
C16_Witness ==
    \E id \in 1..Len(msgs) :
        /\ FinalFramesOf(id) # {}
        /\ Cardinality(FramesOf(id)) > 2
        /\ msgs[id].unackedBytes < msgs[id].bytesSent
        /\ \E i, j \in FramesOf(id), k \in 1..Len(wire) :
              i < k /\ k < j /\ wire[k].id # id

\* the callback made for the frame handled in this step threw
CallbackThrew == FrameHandled /\ last'.outcome = "throw"

\* C17: when the callback of a completed request throws, nothing escapes
\* the actor, an Error reply with domain "BLIP" and code 501 and the
\* request's number is created and queued, the request is counted as
\* dispatched once and is no longer pending, the queues and the other maps
\* are as before; and requests completed later are dispatched.
C17_ThrowAnswered ==
    /\ [](~fault)
    /\ [][CallbackThrew =>
             /\ Len(calls') = Len(calls) + 1
             /\ calls'[Len(calls')].cb \in {"handler", "onRequestReceived"}
             /\ calls'[Len(calls')].no = TheFrame.msgNo
             /\ \E id \in (Len(msgs) + 1)..Len(msgs') :
                   /\ msgs'[id].type = "ERR"
                   /\ msgs'[id].number = TheFrame.msgNo
                   /\ msgs'[id].error = [domain |-> "BLIP", code |-> 501]
                   /\ \E k \in 1..Len(mailbox') :
                         /\ mailbox'[k].op = "queueMessage"
                         /\ mailbox'[k].m = id
             /\ TheFrame.msgNo \notin DOMAIN pendingRequests'
             /\ UNCHANGED <<outbox, icebox, pendingResponses,
                            requestHandlers, webSocket, connection>>]_vars
    /\ [](\A n \in 1..MaxNo : Completed(n) => Dispatches(n) # {})

\* C17 witness: the callback of request 1 threw, the Error reply has been
\* sent, and request 2 was dispatched afterwards.
C17_Witness ==
    /\ \E id \in 1..Len(msgs) :
          /\ msgs[id].type = "ERR"
          /\ msgs[id].number = 1
          /\ FinalFramesOf(id) # {}
    /\ Dispatches(2) # {}

\* the frame handled in this step is a protocol error: not binary, no
\* readable header, unknown type, a request whose number is neither pending
\* nor the next one, or a response to a number with no pending response
ProtocolError ==
    /\ FrameHandled
    /\ \/ ~TheFrame.binary
       \/ ~TheFrame.hdr
       \/ TheFrame.type \notin {"REQ", "RES", "ERR", "ACKREQ", "AKRES"}
       \/ /\ TheFrame.type = "REQ"
          /\ TheFrame.msgNo \notin DOMAIN pendingRequests
          /\ TheFrame.msgNo # numRequestsReceived + 1
       \/ /\ TheFrame.type \in {"RES", "ERR"}
          /\ TheFrame.msgNo \notin DOMAIN pendingResponses

\* C18: handling a frame that is a protocol error makes no callback, leaves
\* the queues, the maps and the request counter as they are, creates and
\* sends nothing and does not close the socket or the connection; and the
\* requests and responses completed by other frames are delivered.
C18_ProtocolErrorDropped ==
    /\ [][ProtocolError =>
             UNCHANGED <<calls, outbox, icebox, pendingRequests,
                         pendingResponses, numRequestsReceived, accepted,
                         msgs, wire, wsClosing, wsState, webSocket,
                         connection, state, closeStatus, fault>>]_vars
    /\ [](\A n \in 1..MaxNo :
             /\ Completed(n) => Dispatches(n) # {}
             /\ ResponsesTo(n) # {} => ResponseCalls(n) # {})

\* C18 witness: a frame that is not binary and a request frame with the
\* number 2 were dropped, then request 1 came and was dispatched, and the
\* socket is still open.
C18_Witness ==
    /\ Len(rx) = 3
    /\ ~rx[1].binary
    /\ IsReq(rx[2], 2)
    /\ IsReq(rx[3], 1) /\ Dispatches(1) # {}
    /\ numRequestsReceived = 1
    /\ webSocket /\ connection /\ ~wsClosing /\ wsState = "open"

\* the place on the wire of the first frame of a message that has one
FirstFrame(id) == CHOOSE i \in FramesOf(id) : \A j \in FramesOf(id) : i <= j

\* three non-urgent requests and then an urgent one were queued, each of
\* several frames, and each has sent its first frame
ThreeThenUrgent ==
    /\ Len(msgs) = 4
    /\ ~msgs[1].urgent /\ ~msgs[2].urgent /\ ~msgs[3].urgent
    /\ msgs[4].urgent
    /\ \A id \in 1..4 :
          /\ msgs[id].number = id
          /\ msgs[id].size > kBigFrameSize
          /\ FramesOf(id) # {}

\* C20 as claimed: the first frames of the four messages are on the wire in
\* the order #1, #4, #2, #3.
C20_UrgentFirstFrameSecond ==
    ThreeThenUrgent =>
        /\ FirstFrame(1) < FirstFrame(4)
        /\ FirstFrame(4) < FirstFrame(2)
        /\ FirstFrame(2) < FirstFrame(3)

\* C20 amended: the first frames of the four messages are on the wire in
\* the order #1, #2, #3, #4, the order in which they were queued; and
\* whatever the priorities, a message sends its first frame only after
\* every message queued before it has sent its own.
C20_FirstFramesInQueueOrder ==
    /\ ThreeThenUrgent =>
          /\ FirstFrame(1) < FirstFrame(2)
          /\ FirstFrame(2) < FirstFrame(3)
          /\ FirstFrame(3) < FirstFrame(4)
    /\ \A a, b \in 1..Len(msgs) :
          (a < b /\ FramesOf(b) # {}) =>
              /\ FramesOf(a) # {}
              /\ FirstFrame(a) < FirstFrame(b)

\* C20 witness: the four messages have sent their first frames, and the
\* urgent one, whose first frame came last, has sent its last frame while
\* request #3 has not.
C20_Witness ==
    /\ ThreeThenUrgent
    /\ FinalFramesOf(4) # {}
    /\ FinalFramesOf(3) = {}


(* ------------------------------- Batcher --------------------------------- *)

\* the items of a pop result or of the queue; null holds none
ItemsOf(r) == IF r = {} THEN <<>> ELSE CHOOSE v \in r : TRUE

RECURSIVE Concat(_)
\* all items returned by a sequence of pops, in the order returned
Concat(rs) == IF rs = <<>> THEN <<>> ELSE ItemsOf(Head(rs)) \o Concat(Tail(rs))

\* a step that is a call of pop
IsPop == pops' # pops

\* C21: under every interleaving of push and pop calls the items returned by
\* the pops so far, followed by the items still queued, are exactly the items
\* pushed, each once and in the order pushed; a pop returns every item pushed
\* since the previous pop, and returns null exactly when there is none (never
\* an empty vector).
C21_PopReturnsBatches ==
    /\ [](/\ Concat(pops) \o ItemsOf(_items) = [i \in 1..nPushed |-> i]
          /\ \A k \in 1..Len(pops) : pops[k] # {<<>>})
    /\ [][IsPop => /\ Len(Concat(pops')) = nPushed
                   /\ (pops'[Len(pops')] = {}) <=> (Len(Concat(pops)) = nPushed)
          ]_vars

\* two pops returned batches, one of them of several items, another returned
\* null, and every item pushed has been returned
C21_Witness ==
    /\ nPushed = BatchItems
    /\ Len(Concat(pops)) = BatchItems
    /\ \E i, j, k \in 1..Len(pops) :
          /\ i < j
          /\ Len(ItemsOf(pops[i])) >= 2
          /\ pops[j] # {}
          /\ pops[k] = {}

\* a step that is a call of push
IsPush == nPushed' # nPushed

\* C22: a push enqueues a call of the processor exactly when none was enqueued
\* since the last pop; whenever items are queued _scheduled is true and a call
\* of the processor is waiting in the actor or running ahead of its pop; and
\* at most one call is enqueued between two consecutive pops.
C22_OneCallPerBatch ==
    /\ [](/\ _items # {} => (_scheduled /\ (processorCalls > 0 \/ processing))
          /\ enqueued <= 1
          /\ _scheduled <=> (enqueued = 1))
    /\ [][IsPush => ((processorCalls' = processorCalls + 1) <=> (enqueued = 0))
          ]_vars

\* a second push joined a batch whose call was already enqueued, and after a
\* pop a later push enqueued a new call
C22_Witness ==
    /\ Len(pops) >= 1
    /\ Len(ItemsOf(pops[1])) >= 2
    /\ _items # {}
    /\ enqueued = 1
    /\ processorCalls > 0

\* C23 as claimed: the first _closed (the Connection back-reference is still
\* set) leaves _outbox, _icebox, _pendingRequests, _pendingResponses and
\* _requestHandlers empty, nulls the WebSocket and Connection back-references
\* and calls Connection::closed once, with the status reported; a later
\* _closed calls nothing.
C23_ClosedClearsAll ==
    [][Handles("onWebSocketClose") =>
          IF connection
          THEN /\ outbox' = <<>>
               /\ icebox' = <<>>
               /\ pendingRequests' = EmptyMap
               /\ pendingResponses' = EmptyMap
               /\ requestHandlers' = EmptyMap
               /\ ~webSocket'
               /\ ~connection'
               /\ Len(calls') = Len(calls) + 1
               /\ calls'[Len(calls')].cb = "onClose"
               /\ closeStatus' = [reason |-> calls'[Len(calls')].arg,
                                  code |-> calls'[Len(calls')].no]
          ELSE calls' = calls]_vars

(* ------------------------------- requeue --------------------------------- *)

\* the messages of the Outbox a call of requeue found, in order
QueuedBefore(c) == [k \in 1..Len(c.q) |-> c.q[k].id]

\* the call left the messages already queued in their order and added its
\* message at the index it chose
OrderKept(c) ==
    /\ Len(c.after) = Len(c.q) + 1
    /\ c.after[c.pos] = c.msg.id
    /\ RemoveAt(c.after, c.pos) = QueuedBefore(c)

\* C24: requeue of a non-urgent message inserts it at the tail of the Outbox
\* and leaves the messages already queued in their order.
C24_NonUrgentAtTail ==
    \A k \in 1..Len(requeued) :
        ~requeued[k].msg.urgent =>
            /\ requeued[k].pos = Len(requeued[k].q) + 1
            /\ OrderKept(requeued[k])

\* a non-urgent message was requeued, after one of its frames, into an Outbox
\* that holds an urgent message and a non-urgent one
C24_Witness ==
    \E k \in 1..Len(requeued) :
        /\ ~requeued[k].msg.urgent
        /\ requeued[k].msg.bytesSent > 0
        /\ \E i, j \in 1..Len(requeued[k].q) :
              requeued[k].q[i].urgent /\ ~requeued[k].q[j].urgent

\* a call of requeue with an urgent message and a non-empty Outbox
UrgentCalls ==
    {k \in 1..Len(requeued) :
        requeued[k].msg.urgent /\ requeued[k].q # <<>>}

Max(S) == IF S = {} THEN 0 ELSE CHOOSE x \in S : \A y \in S : y <= x

\* index of the last urgent message of the Outbox the call found, or 0
LastUrgent(c) == Max({i \in 1..Len(c.q) : c.q[i].urgent})

\* index of the last message of the Outbox at which the scan of the call
\* stops: an urgent message, or a message that has sent no frame when the
\* message requeued has sent none either; 0 if there is none
LastStop(c) ==
    Max({i \in 1..Len(c.q) :
            \/ c.q[i].urgent
            \/ c.msg.bytesSent = 0 /\ c.q[i].bytesSent = 0})

\* the index behind an urgent message at index i, leaving one message between
\* them unless the urgent message is the tail
BehindUrgent(c, i) == IF i < Len(c.q) THEN i + 2 ELSE i + 1

\* C25 as claimed: an urgent message goes behind the last urgent message of
\* the Outbox, with one non-urgent message between them unless that urgent
\* message is the tail, and directly behind the head when the Outbox holds no
\* urgent message; the messages already queued keep their order.
C25_UrgentBehindLastUrgent ==
    \A k \in UrgentCalls :
        LET c == requeued[k]
        IN  /\ c.pos = IF LastUrgent(c) > 0
                       THEN BehindUrgent(c, LastUrgent(c)) ELSE 2
            /\ OrderKept(c)

\* C25 amended: the scan from the tail also stops at a message that has sent
\* no frame when the urgent message has sent none, and then the urgent
\* message goes directly behind that message; otherwise it goes behind the
\* last urgent message, with one non-urgent message between them unless that
\* urgent message is the tail, or directly behind the head when the scan
\* stops nowhere; the messages already queued keep their order.
C25_UrgentBehindLastStop ==
    \A k \in UrgentCalls :
        LET c == requeued[k]
            i == LastStop(c)
        IN  /\ c.pos = IF i = 0 THEN 2
                       ELSE IF c.q[i].urgent THEN BehindUrgent(c, i)
                       ELSE i + 1
            /\ OrderKept(c)

\* an urgent message that has sent a frame went behind the last urgent
\* message with a non-urgent one between them and ahead of another message,
\* and in the same handler an urgent message went directly behind the head
C25_Witness ==
    \E k, l \in UrgentCalls :
        /\ requeued[k].msg.bytesSent > 0
        /\ LastUrgent(requeued[k]) > 0
        /\ requeued[k].pos = LastUrgent(requeued[k]) + 2
        /\ requeued[k].pos <= Len(requeued[k].q)
        /\ requeued[l].msg.bytesSent > 0
        /\ LastUrgent(requeued[l]) = 0
        /\ requeued[l].pos = 2
        /\ Len(requeued[l].q) >= 2

\* the calls of requeue with an urgent message that has sent no frame whose
\* scan stops at a non-urgent message that has sent no frame either
FirstFrameStops ==
    {k \in UrgentCalls :
        /\ requeued[k].msg.bytesSent = 0
        /\ LastStop(requeued[k]) > 0
        /\ ~requeued[k].q[LastStop(requeued[k])].urgent}

\* the index, after the call, of the message that was at index i before it
IndexAfter(c, i) == IF i < c.pos THEN i ELSE i + 1

\* C26 as claimed: when the scan of an urgent message that has sent no frame
\* meets a non-urgent message that has sent none either, the urgent message
\* is placed before that message in the Outbox.
C26_BeforeFirstFrameStop ==
    \A k \in FirstFrameStops :
        requeued[k].pos < IndexAfter(requeued[k], LastStop(requeued[k]))

\* C26 amended: the urgent message is placed directly behind that message,
\* and so behind every queued message that has not sent its first frame.
C26_BehindFirstFrameStop ==
    \A k \in FirstFrameStops :
        LET c == requeued[k]
        IN  /\ c.pos = LastStop(c) + 1
            /\ c.after[c.pos - 1] = c.q[LastStop(c)].id
            /\ \A i \in 1..Len(c.q) : c.q[i].bytesSent = 0 => i < c.pos

\* an urgent message that has sent no frame was queued behind a non-urgent
\* message that has sent none, in an Outbox that holds an urgent message
\* and a non-urgent message that have sent frames
C26_Witness ==
    \E k \in FirstFrameStops :
        \E i, j \in 1..Len(requeued[k].q) :
            /\ requeued[k].q[i].urgent
            /\ ~requeued[k].q[j].urgent
            /\ requeued[k].q[j].bytesSent > 0

(* ----------------------------- write loop -------------------------------- *)

\* the bytes of its message a frame had left to send
Remaining(f) == msgs[f.id].size - (f.bytesSent - f.body)

\* the payload a frame carries under the frame size limit `limit`
PayloadUnder(f, limit) == Min(limit - 10, Remaining(f))

\* C28: a frame is cut to kBigFrameSize (16384) if its message is urgent, or
\* the Outbox is empty once the message is popped, or the new head of the
\* Outbox is not urgent; otherwise (a non-urgent message with an urgent one
\* next in the queue) to kDefaultFrameSize (4096).  The payload is the limit
\* less 10 bytes, or what is left of the message.
C28_FrameSizeLimit ==
    \A i \in 1..Len(wire) :
        LET f == wire[i]
        IN  (f.behind # "") =>
                f.body = IF \/ msgs[f.id].urgent
                            \/ f.behind = "nothing"
                            \/ f.behind = "regular"
                         THEN PayloadUnder(f, 16384)
                         ELSE PayloadUnder(f, 4096)

\* frames were cut to the big size for an urgent message, for a non-urgent
\* message alone in the queue and for a non-urgent message ahead of a
\* non-urgent one, and to the default size for a non-urgent message ahead of
\* an urgent one
C28_Witness ==
    \E i, j, k, l \in 1..Len(wire) :
        /\ msgs[wire[i].id].urgent /\ wire[i].behind = "urgent"
        /\ wire[i].body = 16374
        /\ ~msgs[wire[j].id].urgent /\ wire[j].behind = "nothing"
        /\ wire[j].body = 16374
        /\ ~msgs[wire[k].id].urgent /\ wire[k].behind = "regular"
        /\ wire[k].body = 16374
        /\ ~msgs[wire[l].id].urgent /\ wire[l].behind = "urgent"
        /\ wire[l].body = 4086

\* the bytes of the frame passed to send
FrameLength(b) == Len(b.header) + b.body

\* C29: every frame passed to send is at most kBigFrameSize +
\* 2 * kMaxVarintLen64 bytes long, the size of _frameBuf, whatever the
\* message number (up to 2^64 - 1) and the flag byte: the payload asked of
\* the message is at most the frame size chosen less 10, and the header is
\* at most two varints of the greatest length.
C29_FrameFitsBuffer ==
    frame.sent =>
        /\ FrameLength(frame) <= 16384 + 2 * kMaxVarintLen64
        /\ frame.body <= frame.maxSize - 10
        /\ frame.maxSize \in {4096, 16384}
        /\ Len(frame.header) <= 2 * kMaxVarintLen64

\* the longest frame: message number 2^64 - 1 (ten bytes of varint), a flag
\* byte of two bytes of varint and a payload of the big frame size less 10
C29_Witness ==
    /\ frame.sent
    /\ frame.number = Limbs(65535, 65535, 65535, 65535)
    /\ frame.flags = 255
    /\ frame.header = <<255, 255, 255, 255, 255, 255, 255, 255, 255, 1, 255, 1>>
    /\ frame.body = 16374
    /\ FrameLength(frame) = 16386

\* the frames passed to send in this step
NewFrames == SubSeq(wire', Len(wire) + 1, Len(wire'))

RECURSIVE SumSizes(_)
SumSizes(fs) == IF fs = <<>> THEN 0 ELSE Head(fs).size + SumSizes(Tail(fs))

\* _sentBytes when the write loop of this step started
SentAtStart == IF Handles("onWebSocketWriteable") THEN 0 ELSE sentBytes

\* C30: the write loop sends one frame of the head of the Outbox per
\* iteration, adds its length to _sentBytes, and stops exactly when
\* _sentBytes >= kMaxSendSize (51200) or the Outbox is empty; while
\* _sentBytes >= kMaxSendSize no handler sends a frame, until
\* _onWebSocketWriteable runs, which starts again from _sentBytes = 0.
C30_WriteLoopBudget ==
    [][/\ (sentBytes >= 51200 /\ ~Handles("onWebSocketWriteable"))
             => wire' = wire
       /\ (wire' # wire) =>
             /\ SentAtStart < 51200
             /\ sentBytes' = SentAtStart + SumSizes(NewFrames)
             /\ sentBytes' - wire'[Len(wire')].size < 51200
             /\ sentBytes' >= 51200 \/ outbox' = <<>>
       /\ Handles("onWebSocketWriteable") =>
             /\ sentBytes' >= 51200 \/ outbox' = <<>>
             /\ (wire' = wire) => sentBytes' = 0
             /\ (outbox # <<>>) => /\ wire' # wire
                                   /\ Head(NewFrames).id = Head(outbox)
      ]_vars

\* the budget is used up; a message frozen after 51200 bytes was thawed by
\* its ACK and a message was queued, the last handler run, and neither has
\* sent a frame since
C30_Witness ==
    /\ sentBytes >= 51200
    /\ last.op = "queueMessage"
    /\ contains(outbox, last.m)
    /\ msgs[last.m].bytesSent = 0
    /\ \E i \in 1..Len(outbox) :
          /\ msgs[outbox[i]].bytesSent >= 51200
          /\ msgs[outbox[i]].bytesSent < msgs[outbox[i]].size

(* ------------------------------- progress -------------------------------- *)

\* every frame of the message has been sent
AllSent(id) == id <= Len(msgs) /\ msgs[id].bytesSent = msgs[id].size

\* the message is a non-urgent one that _queueMessage has put in the Outbox
\* or that waits in the Icebox
RegularQueued(id) ==
    /\ id <= Len(msgs)
    /\ ~msgs[id].urgent
    /\ contains(outbox, id) \/ contains(icebox, id)

\* frames i < j are consecutive frames of one urgent message
ConsecutiveUrgent(i, j) ==
    /\ i < j
    /\ wire[i].id = wire[j].id
    /\ msgs[wire[i].id].urgent
    /\ \A k \in (i + 1)..(j - 1) : wire[k].id # wire[i].id

\* C27: with the transport reporting room again and again and the ACKs
\* waited for arriving, every non-urgent message that is queued eventually
\* has all its frames sent; and between two consecutive frames of one urgent
\* message a frame of a non-urgent message is sent, whenever a non-urgent
\* message was in the Outbox behind the urgent one at its first frame of the
\* two.
C27_NoStarvation ==
    /\ \A id \in 1..LiveSends : RegularQueued(id) ~> AllSent(id)
    /\ [](\A i, j \in 1..Len(wire) :
            (/\ ConsecutiveUrgent(i, j)
             /\ \E n \in wire[i].queued : ~msgs[n].urgent)
                => \E k \in (i + 1)..(j - 1) : ~msgs[wire[k].id].urgent)

\* three requests have all been sent, among them an urgent one and a
\* non-urgent one that each waited for an ACK, and a frame of the non-urgent
\* one went between two frames of the urgent one
C27_Witness ==
    /\ Len(msgs) = 3
    /\ \A id \in 1..3 : AllSent(id)
    /\ \E i, j \in 1..Len(wire) :
          /\ ConsecutiveUrgent(i, j)
          /\ msgs[wire[i].id].size = 70000
          /\ \E k \in (i + 1)..(j - 1) :
                /\ ~msgs[wire[k].id].urgent
                /\ msgs[wire[k].id].size = 70000
                /\ wire[k].id \in wire[i].queued

(* ------------------------------ after a frame ---------------------------- *)

\* the frames whose iteration of the write loop was recorded
Recorded == {i \in 1..Len(wire) : "after" \in DOMAIN wire[i]}

\* the message is in the queue q exactly once and the others are as in q0
AddedTo(q, q0, id) ==
    \E k \in 1..Len(q) : q[k] = id /\ RemoveAt(q, k) = q0

\* C31: after a frame of message m is sent: with MoreComing and m needing an
\* ACK, m is added to the Icebox and not to the Outbox; with MoreComing and
\* no ACK needed, m is put back in the Outbox (and not in the Icebox), the
\* other messages staying in their order; without MoreComing m is in neither
\* queue, and if m is a request that expects a reply its number is
\* registered in _pendingResponses.
C31_AfterFrame ==
    \A i \in Recorded :
        LET f == wire[i]
        IN  /\ (f.more /\ f.needsAck) =>
                  /\ AddedTo(f.after.icebox, f.before.icebox, f.id)
                  /\ f.after.outbox = f.before.outbox
                  /\ f.after.pending = f.before.pending
            /\ (f.more /\ ~f.needsAck) =>
                  /\ AddedTo(f.after.outbox, f.before.outbox, f.id)
                  /\ f.after.icebox = f.before.icebox
                  /\ f.after.pending = f.before.pending
            /\ ~f.more =>
                  /\ f.after.outbox = f.before.outbox
                  /\ f.after.icebox = f.before.icebox
                  /\ ~contains(f.after.outbox, f.id)
                  /\ ~contains(f.after.icebox, f.id)
                  /\ f.after.pending =
                        IF f.type = "REQ" /\ ~f.noReply
                        THEN f.before.pending \cup {f.number}
                        ELSE f.before.pending

\* frames have been sent in each case: one after which the message was
\* frozen, one after which it was requeued, a last frame of a request that
\* expects a reply and a last frame of one that expects none
C31_Witness ==
    /\ \E i \in Recorded : wire[i].more /\ wire[i].needsAck
    /\ \E j \in Recorded : wire[j].more /\ ~wire[j].needsAck
    /\ \E k \in Recorded : /\ ~wire[k].more /\ ~wire[k].noReply
                            /\ wire[k].number \notin wire[k].before.pending
    /\ \E l \in Recorded : ~wire[l].more /\ wire[l].noReply

\* the frame handled in this step is an ACK frame
AckHandled ==
    /\ FrameHandled
    /\ TheFrame.binary /\ TheFrame.hdr
    /\ TheFrame.type \in {"ACKREQ", "AKRES"}

\* the queued messages of q that findMessage takes for the ACK frame e: same
\* number, and a response exactly if the ACK is one for a response
Named(q, e) ==
    {i \in 1..Len(q) : /\ msgs[q[i]].number = e.msgNo
                       /\ (msgs[q[i]].type = "RES") = (e.type = "AKRES")}

\* the queued messages of q that the ACK frame e acknowledges: the request
\* (ACKREQ) or the response (AKRES) of its number
Acknowledged(q, e) ==
    {i \in 1..Len(q) :
        /\ msgs[q[i]].number = e.msgNo
        /\ msgs[q[i]].type = (IF e.type = "AKRES" THEN "RES" ELSE "REQ")}

\* how often the message id is queued, in the Outbox and the Icebox
TimesQueued(out, ice, id) ==
    Cardinality({i \in 1..Len(out) : out[i] = id})
        + Cardinality({i \in 1..Len(ice) : ice[i] = id})

\* the handler moved nothing and sent nothing
QueuesKept ==
    /\ outbox' = outbox
    /\ icebox' = icebox
    /\ requeued' = <<>>
    /\ wire' = wire

\* the handler took id off the Icebox and requeued it into the Outbox it
\* found; the other frozen messages stayed frozen
Thawed(id) ==
    /\ requeued' # <<>>
    /\ requeued'[1].msg.id = id
    /\ requeued'[1].q = [k \in 1..Len(outbox) |-> QueueEntry(msgs', outbox[k])]
    /\ \E k \in 1..Len(requeued'[1].after) : requeued'[1].after[k] = id
    /\ TimesQueued(outbox', icebox', id) <= 1
    /\ assertFailed' = assertFailed
    /\ \A k \in 1..Len(icebox) :
          icebox[k] # id => \E j \in 1..Len(icebox') : icebox'[j] = icebox[k]

\* What the handler of an ACK frame does when the frame is for the first
\* message that For picks in the Outbox, or else in the Icebox.
AckRule(For(_, _)) ==
    LET e == TheFrame
        inOut == For(outbox, e) # {}
        inIce == For(icebox, e) # {}
        id == icebox[CHOOSE i \in For(icebox, e) :
                        \A j \in For(icebox, e) : i <= j]
    IN  IF inOut \/ ~inIce \/ e.bytes < 0
        THEN QueuesKept
        ELSE IF needsAck(msgReceivedAck(msgs[id], e.bytes))
        THEN QueuesKept
        ELSE Thawed(id)

\* the rule holds with the lookup as findMessage makes it: by number and
\* isResponse, whatever the type of the message found
AckThawsFirstNamed == [][AckHandled => AckRule(Named)]_vars

ActorStep == nsteps' = nsteps + 1

\* the step changes no state of the Connection or the BLIPIO and calls no
\* delegate: at most, it posts to the mailbox
PostsOnly ==
    /\ UNCHANGED <<state, closeStatus, calls, bioVarsNoMsgs, wire>>
    /\ Len(mailbox') = Len(mailbox) + 1
    /\ SubSeq(mailbox', 1, Len(mailbox)) = mailbox

\* every entry point but close() and onWebSocketConnect only posts
OthersPostOnly ==
    [][(~ActorStep /\ state' = state) => PostsOnly]_vars

\* C33: a transport callback or an application entry point only posts a
\* message to the mailbox: every step that changes the state of the
\* Connection or of the BLIPIO, or calls the application delegate, is a step
\* of the actor handling an event of its mailbox.
C33_OnlyThroughMailbox ==
    [][~ActorStep => PostsOnly]_vars

\* the body region of what _out.finish() returned, and its compressed form
PlainBody == SubSeq(built.plain, builder.propertiesLength + 1, Len(built.plain))
Zipped == GZipCompress(PlainBody) \o GZipFinish(PlainBody)

\* the length prefix and the properties region of a byte string
PropertiesRegion(bytes) == SubSeq(bytes, 1, Min(builder.propertiesLength, Len(bytes)))

\* C34: extractOutput with compression requested returns the length prefix
\* and the properties as they are, followed by the compressed body if the
\* body is not empty and its compressed form is strictly shorter, and then
\* the Compressed flag stays set; otherwise it returns the uncompressed
\* output and the Compressed flag is cleared.
C34_CompressedOnlyIfShorter ==
    (built.op = "extractOutput" /\ built.asked) =>
        /\ PropertiesRegion(built.output) = PropertiesRegion(built.plain)
        /\ IF PlainBody # <<>> /\ Len(Zipped) < Len(PlainBody)
           THEN /\ built.output = PropertiesRegion(built.plain) \o Zipped
                /\ builder.compressed
           ELSE /\ built.output = built.plain
                /\ ~builder.compressed

\* compression was asked for a message with properties and a body that is
\* longer than its compressed form, and the compressed body was adopted
C34_Witness ==
    /\ built.op = "extractOutput"
    /\ built.asked
    /\ builder.propertiesLength > 1
    /\ PlainBody # <<>>
    /\ Len(built.output) < Len(built.plain)
    /\ builder.compressed

RECURSIVE Tokenized(_)
\* the properties region for the properties props, pairs <<name, value>>
Tokenized(props) ==
    IF props = <<>> THEN <<>>
    ELSE writeTokenizedString(writeTokenizedString(<<>>, props[1][1]),
                              props[1][2])
            \o Tokenized(Tail(props))

\* a message with the properties props and the body: the length of the
\* properties region as a varint, the properties region, the body
Encoded(props, body) ==
    PutUVarInt(Limbs(Len(Tokenized(props)), 0, 0, 0)) \o Tokenized(props) \o body

\* extractOutput was called for the first time since the builder was made
\* or reset, and no addProperty came after a write
FirstOutput ==
    /\ built.op = "extractOutput"
    /\ ~built.again
    /\ ~built.assertFailed

\* what extractOutput returns (before the body is compressed) has the
\* properties added since the builder was made, whether before or after a
\* reset, and the body written since the last reset
ResetKeepsProperties ==
    FirstOutput => built.plain = Encoded(built.allProps, built.body)

\* C40: after reset the flags urgent, compressed and noreply and the
\* properties-written flag are false, and what extractOutput then returns
\* (before the body is compressed) is the message with exactly the
\* properties and the body added since the reset.
C40_ResetStartsAfresh ==
    /\ built.op = "reset" =>
          /\ ~builder.urgent /\ ~builder.compressed /\ ~builder.noreply
          /\ ~builder.wroteProperties
    /\ (FirstOutput /\ built.resets > 0) =>
          built.plain = Encoded(built.props, built.body)

\* a builder with a property was reset, then given a body, and its output
\* was extracted
C40_Witness ==
    /\ FirstOutput
    /\ built.resets > 0
    /\ built.props # built.allProps
    /\ built.body # <<>>

\* C35: requeue never puts a message at the head of an Outbox that is not
\* empty: whether the message is urgent or not, the message that was at the
\* head is still at the head after the insertion, and the next frame sent
\* is a frame of the message that was at the head when the frame before it
\* was done.
C35_HeadStaysHead ==
    /\ \A k \in 1..Len(requeued) :
          requeued[k].q # <<>> =>
              /\ requeued[k].pos > 1
              /\ requeued[k].after[1] = requeued[k].q[1].id
    /\ \A i \in Recorded :
          (i < Len(wire) /\ wire[i].after.outbox # <<>>) =>
              wire[i + 1].id = wire[i].after.outbox[1]

\* an urgent message was requeued into an Outbox of non-urgent messages only
\* that have sent frames, and a frame was sent afterwards
C35_Witness ==
    /\ \E k \in 1..Len(requeued) :
          /\ requeued[k].msg.urgent
          /\ requeued[k].q # <<>>
          /\ \A i \in 1..Len(requeued[k].q) :
                ~requeued[k].q[i].urgent /\ requeued[k].q[i].bytesSent > 0
    /\ \E i \in Recorded : i < Len(wire) /\ Len(wire[i].after.outbox) > 1

\* the frames sent in this step
FramesSent == {wire'[i].id : i \in (Len(wire) + 1)..Len(wire')}

\* the frame handled in this step is an ACK for the message id
IsAckFor(id) ==
    /\ AckHandled
    /\ TheFrame.msgNo = msgs[id].number
    /\ TheFrame.type = (IF msgs[id].type = "RES" THEN "AKRES" ELSE "ACKREQ")

\* the step is _closed, which empties the queues
ClosedStep == Handles("onWebSocketClose") /\ outbox' = <<>> /\ icebox' = <<>>

Frozen(q, id) == \E i \in 1..Len(q) : q[i] = id

\* C36: a frozen message is in the Icebox only, and a step sends a frame of
\* a message that is frozen, or takes it off the Icebox, or puts it in the
\* Outbox only if the step handles an ACK for that message; besides, the
\* message leaves the Icebox only when _closed empties the queues, and then
\* no frame of it is sent.
C36_FrozenUntilAck ==
    /\ [](\A i \in 1..Len(icebox) : ~Frozen(outbox, icebox[i]))
    /\ [][\A k \in 1..Len(icebox) :
             LET id == icebox[k]
             IN  /\ (id \in FramesSent \/ Frozen(outbox', id)) => IsAckFor(id)
                 /\ ~Frozen(icebox', id) => (IsAckFor(id) \/ ClosedStep)]_vars

\* a frozen message was thawed by its ACK and sent a frame in the same step
C36_Witness ==
    /\ last.op = "onWebSocketMessage"
    /\ rx # <<>>
    /\ rx[Len(rx)].type = "ACKREQ"
    /\ requeued # <<>>
    /\ wire # <<>>
    /\ rx[Len(rx)].sent < Len(wire)
    /\ wire[Len(wire)].id = requeued[1].msg.id

\* the calls of delegate.onClose so far
OnCloseCalls == {i \in 1..Len(calls) : calls[i].cb = "onClose"}

\* the step handles a close reported by the transport after the first one,
\* or a close() when the WebSocket reference is already null
AfterTheClose ==
    \/ Handles("onWebSocketClose") /\ ~connection
    \/ Handles("close") /\ ~webSocket

\* C37: delegate.onClose is called at most once, by the one call of
\* Connection::closed; the handler of a second onWebSocketClose, and the
\* handler of a close() that runs after the close, change no state of the
\* Connection, the BLIPIO or the transport and make no call.
C37_ClosedOnce ==
    /\ [](Cardinality(OnCloseCalls) <= 1)
    /\ [][AfterTheClose =>
             UNCHANGED <<state, closeStatus, calls, bioVarsNoMsgs, msgs, wire,
                         wsClosing, fault, assertFailed>>]_vars

\* the transport has reported its close twice and both reports are handled
C37_Witness ==
    /\ wsState = "closed twice"
    /\ last.op = "onWebSocketClose"
    /\ \A i \in 1..Len(mailbox) : mailbox[i].op # "onWebSocketClose"
    /\ Cardinality(OnCloseCalls) = 1

\* the actor handles an event after _closed has nulled the back-references
AfterClosed == ActorStep /\ ~connection /\ ~webSocket

\* C38: an event handled after _closed makes no call of the delegate or of
\* a handler, does not end in a fault on a null back-reference, creates no
\* MessageIn, sends no frame, and leaves the Outbox and the Icebox empty.
C38_NothingAfterClosed ==
    [][AfterClosed =>
          /\ calls' = calls
          /\ ~fault'
          /\ FrameHandled => ~TheFrame.created
          /\ wire' = wire
          /\ outbox' = <<>>
          /\ icebox' = <<>>]_vars

\* the events other than frames are handled so
OthersAfterClosed ==
    [][(AfterClosed /\ ~Handles("onWebSocketMessage")) =>
          /\ calls' = calls
          /\ ~fault'
          /\ wire' = wire
          /\ outbox' = <<>>
          /\ icebox' = <<>>
          /\ lastMessageNo' = lastMessageNo]_vars

\* and so are the frames that are not of a request
NonRequestsAfterClosed ==
    [][(AfterClosed /\ FrameHandled /\ TheFrame.type # "REQ") =>
          /\ UNCHANGED <<calls, fault, wire, outbox, icebox, pendingRequests,
                         pendingResponses, numRequestsReceived>>]_vars

\* the driver's actor handles the event op in this step
DriverStep(op) ==
    /\ mock.mailbox # <<>>
    /\ Head(mock.mailbox).op = op
    /\ mock'.mailbox = Tail(mock.mailbox)

\* the callbacks the driver makes in this step
NewCallbacks == (Len(mock.calls) + 1)..Len(mock'.calls)

\* the i-th callback came while the driver was open: after an
\* onWebSocketConnect with no onWebSocketClose since
WhileOpen(i) ==
    \E j \in 1..(i - 1) :
        /\ mock.calls[j].cb = "onWebSocketConnect"
        /\ \A k \in (j + 1)..(i - 1) : mock.calls[k].cb # "onWebSocketClose"

\* onWebSocketMessage and onWebSocketWriteable are delivered only while the
\* driver is open; a send or a simulated receive handled while it is not
\* open makes no callback
OnlyWhileOpen ==
    /\ [](\A i \in 1..Len(mock.calls) :
             mock.calls[i].cb \in {"onWebSocketMessage", "onWebSocketWriteable"}
                 => WhileOpen(i))
    /\ [][/\ \A i \in NewCallbacks :
                mock'.calls[i].cb \in {"onWebSocketMessage",
                                       "onWebSocketWriteable"}
                    => mock.isOpen /\ mock'.isOpen
          /\ ((DriverStep("_send") \/ DriverStep("_simulateReceived"))
                 /\ ~mock.isOpen) => mock' = [mock EXCEPT !.mailbox = Tail(@)]
         ]_vars

\* onWebSocketClose is delivered at most once per connect; a close or a
\* simulated close handled while the driver is not open does nothing
CloseOncePerConnect ==
    /\ [](\A i \in 1..Len(mock.calls) :
             mock.calls[i].cb = "onWebSocketClose" => WhileOpen(i))
    /\ [][((DriverStep("_close") \/ DriverStep("_simulateClosed"))
                /\ ~mock.isOpen) =>
             /\ mock'.calls = mock.calls
             /\ mock'.isOpen = mock.isOpen
             /\ mock'.webSocket = mock.webSocket]_vars

\* the callback a close() with the status code asks for
CloseCallback(code) ==
    Callback("onWebSocketClose", [reason |-> kWebSocketClose, code |-> code])

\* C39 as claimed: messages and writeable only while open, onWebSocketClose
\* at most once per connect, and every close() that was called while the
\* driver was open has, once the driver has handled it, brought an
\* onWebSocketClose with the reason WebSocket and the code it asked for.
C39_CloseRequestedWhileOpen ==
    /\ OnlyWhileOpen
    /\ CloseOncePerConnect
    /\ [](\A k \in 1..Len(mock.closes) :
             (mock.closes[k].open /\ mock.closes[k].handled /\ ~mock.fault) =>
                 \E i \in 1..Len(mock.calls) :
                     mock.calls[i] = CloseCallback(mock.closes[k].code))

\* C39 amended: messages and writeable only while open, onWebSocketClose at
\* most once per connect, and a close() that the driver handles while it is
\* open, on a driver that was not closed before, makes in that step the
\* callback onWebSocketClose with the reason WebSocket and the code asked
\* for, and leaves the driver not open.
C39_CloseHandledWhileOpen ==
    /\ OnlyWhileOpen
    /\ CloseOncePerConnect
    /\ [][(DriverStep("_close") /\ mock.isOpen /\ mock.webSocket) =>
             /\ mock'.calls =
                    Append(mock.calls,
                           CloseCallback(Head(mock.mailbox).status.code))
             /\ ~mock'.isOpen]_vars

\* the driver connected, made a callback while open, and closed on a
\* close(); another call was dropped
C39_Witness ==
    /\ Len(mock.calls) = 3
    /\ mock.calls[1].cb = "onWebSocketConnect"
    /\ mock.calls[2].cb \in {"onWebSocketMessage", "onWebSocketWriteable"}
    /\ \E k \in 1..Len(mock.closes) :
          /\ mock.closes[k].handled
          /\ mock.calls[3] = CloseCallback(mock.closes[k].code)
    /\ mock.n = MockOps
    /\ mock.mailbox = <<>>
    /\ mock.delayed = {}
    /\ ~mock.fault

=============================================================================
